---------------------------- MODULE Spec2Model ----------------------------
(***************************************************************************)
(* Tornado-JSON: the validate() request pipeline (tornado_json/schema.py), *)
(* the dynamic schema resolver (evaluate_schema_callbacks,                 *)
(* detect_schemacallback) and the apidoc type formatter                    *)
(* (tornado_json/apidocjs/output.py).                                      *)
(*                                                                         *)
(* Python values are tagged records.  A Python str is a sequence of        *)
(* one-character strings, a dict is a function whose domain is a set of    *)
(* such sequences, a list is a sequence of values.                         *)
(***************************************************************************)
EXTENDS Integers, Sequences, FiniteSets, TLC

(***************************************************************************)
(* Bounds of the model.                                                    *)
(***************************************************************************)
MaxBoundValue == 2      \* minLength/maxLength/minimum/maximum range over 0..MaxBoundValue
MaxArrayDepth == 2      \* array nesting of the schemas given to format_type
MaxTreeDepth == 2       \* dict nesting of the trees given to the resolver

(***************************************************************************)
(* Python values.                                                          *)
(***************************************************************************)
None == [t |-> "null"]
Bool(b) == [t |-> "bool", b |-> b]
Num(n) == [t |-> "int", n |-> n]
Str(s) == [t |-> "str", s |-> s]
List(l) == [t |-> "list", l |-> l]
Dict(d) == [t |-> "dict", d |-> d]
SchemaCallback(i) == [t |-> "cb", id |-> i]

EmptyDict == [k \in {} |-> None]

\* A dict literal from a set of <<key, value>> pairs with distinct keys.
MkDict(pairs) ==
    Dict([k \in {p[1] : p \in pairs} |-> (CHOOSE p \in pairs : p[1] = k)[2]])

\* d[k] = v on a copy of the function d (Python dict item assignment).
DictSet(d, k, v) ==
    [x \in (DOMAIN d) \cup {k} |-> IF x = k THEN v ELSE d[x]]

\* schema.get(key): None when the key is absent.
Get(schema, key) ==
    IF key \in DOMAIN schema.d THEN schema.d[key] ELSE None

\* only None counts as empty (`output is None`)
Falsy_only_none(v) == v.t = "null"

\* Python truthiness, the operand of `not output`.
Falsy(v) ==
    CASE v.t = "null" -> TRUE
      [] v.t = "bool" -> ~v.b
      [] v.t = "int" -> v.n = 0
      [] v.t = "str" -> v.s = <<>>
      [] v.t = "list" -> v.l = <<>>
      [] v.t = "dict" -> DOMAIN v.d = {}
      [] OTHER -> FALSE

(***************************************************************************)
(* Text constants (one-character strings in sequence).                     *)
(***************************************************************************)
s_type == <<"t", "y", "p", "e">>
s_properties == <<"p", "r", "o", "p", "e", "r", "t", "i", "e", "s">>
s_required == <<"r", "e", "q", "u", "i", "r", "e", "d">>
s_items == <<"i", "t", "e", "m", "s">>
s_enum == <<"e", "n", "u", "m">>
s_minLength == <<"m", "i", "n", "L", "e", "n", "g", "t", "h">>
s_maxLength == <<"m", "a", "x", "L", "e", "n", "g", "t", "h">>
s_minimum == <<"m", "i", "n", "i", "m", "u", "m">>
s_maximum == <<"m", "a", "x", "i", "m", "u", "m">>
s_result == <<"r", "e", "s", "u", "l", "t">>
s_object == <<"o", "b", "j", "e", "c", "t">>
s_array == <<"a", "r", "r", "a", "y">>
s_string == <<"s", "t", "r", "i", "n", "g">>
s_number == <<"n", "u", "m", "b", "e", "r">>
s_integer == <<"i", "n", "t", "e", "g", "e", "r">>
s_boolean == <<"b", "o", "o", "l", "e", "a", "n">>
s_null == <<"n", "u", "l", "l">>
s_true == <<"t", "r", "u", "e">>
s_false == <<"f", "a", "l", "s", "e">>
s_published == <<"p", "u", "b", "l", "i", "s", "h", "e", "d">>
s_name == <<"n", "a", "m", "e">>
s_A == <<"A">>
s_B == <<"B">>

Digits == <<"0", "1", "2", "3", "4", "5", "6", "7", "8", "9">>
DigitSet == {Digits[i] : i \in 1..10}
DigitValue(c) == (CHOOSE i \in 1..10 : Digits[i] = c) - 1

(***************************************************************************)
(* bytes.decode("UTF-8").  A body is a sequence of byte values; the text   *)
(* is a sequence of characters.  The ASCII table lists the bytes the       *)
(* bodies of the model use.                                                *)
(***************************************************************************)
AsciiTable ==
    { <<32, " ">>, <<34, "\"">>, <<44, ",">>, <<45, "-">>, <<58, ":">>,
      <<48, "0">>, <<49, "1">>, <<50, "2">>, <<51, "3">>, <<52, "4">>,
      <<53, "5">>, <<54, "6">>, <<55, "7">>, <<56, "8">>, <<57, "9">>,
      <<65, "A">>, <<66, "B">>, <<67, "C">>, <<76, "L">>,
      <<91, "[">>, <<93, "]">>,
      <<97, "a">>, <<98, "b">>, <<99, "c">>, <<100, "d">>, <<101, "e">>,
      <<102, "f">>, <<103, "g">>, <<104, "h">>, <<105, "i">>, <<106, "j">>,
      <<107, "k">>, <<108, "l">>, <<109, "m">>, <<110, "n">>, <<111, "o">>,
      <<112, "p">>, <<113, "q">>, <<114, "r">>, <<115, "s">>, <<116, "t">>,
      <<117, "u">>, <<118, "v">>, <<119, "w">>, <<120, "x">>, <<121, "y">>,
      <<122, "z">>, <<123, "{">>, <<125, "}">> }

Ord(c) == (CHOOSE p \in AsciiTable : p[2] = c)[1]
Chr(n) ==
    IF \E p \in AsciiTable : p[1] = n
    THEN (CHOOSE p \in AsciiTable : p[1] = n)[2]
    ELSE "U+" \o ToString(n)

\* str.encode("UTF-8") of ASCII text: what a well-behaved client sends.
Encode(text) == [i \in 1..Len(text) |-> Ord(text[i])]

IsContinuation(b) == b >= 128 /\ b <= 191

\* The result of decoding: [ok |-> TRUE, text |-> ...] or, for an invalid
\* byte sequence, [ok |-> FALSE] (UnicodeDecodeError, a ValueError).
RECURSIVE Utf8Decode(_, _, _)
Utf8Decode(bytes, i, acc) ==
    IF i > Len(bytes) THEN [ok |-> TRUE, text |-> acc]
    ELSE LET b == bytes[i] IN
         IF b < 128 THEN Utf8Decode(bytes, i + 1, Append(acc, Chr(b)))
         ELSE IF b >= 194 /\ b <= 223
                 /\ i + 1 <= Len(bytes) /\ IsContinuation(bytes[i + 1])
         THEN Utf8Decode(bytes, i + 2,
                         Append(acc, Chr((b - 192) * 64 + (bytes[i + 1] - 128))))
         ELSE [ok |-> FALSE]

Decode(bytes) == Utf8Decode(bytes, 1, <<>>)

(***************************************************************************)
(* json.loads on text: objects, arrays, strings without escapes,           *)
(* non-negative integers, true, false, null, blanks between tokens.        *)
(* A parse step returns [ok |-> TRUE, v |-> value, i |-> next index] or    *)
(* [ok |-> FALSE] (JSONDecodeError, a ValueError).                         *)
(***************************************************************************)
ParseFail == [ok |-> FALSE]

RECURSIVE SkipWs(_, _)
SkipWs(text, i) ==
    IF i <= Len(text) /\ text[i] = " " THEN SkipWs(text, i + 1) ELSE i

HasLiteral(text, i, lit) ==
    /\ i + Len(lit) - 1 <= Len(text)
    /\ SubSeq(text, i, i + Len(lit) - 1) = lit

\* text[i] is the opening quote; returns the characters up to the closing one.
RECURSIVE ScanString(_, _, _)
ScanString(text, i, acc) ==
    IF i > Len(text) THEN ParseFail
    ELSE IF text[i] = "\"" THEN [ok |-> TRUE, v |-> Str(acc), i |-> i + 1]
    ELSE ScanString(text, i + 1, Append(acc, text[i]))

RECURSIVE ScanDigits(_, _, _)
ScanDigits(text, i, acc) ==
    IF i <= Len(text) /\ text[i] \in DigitSet
    THEN ScanDigits(text, i + 1, acc * 10 + DigitValue(text[i]))
    ELSE [ok |-> TRUE, v |-> Num(acc), i |-> i]

\* A leading 0 is a complete number: "01" is the number 0 and extra data.
ScanNumber(text, i) ==
    IF text[i] = "0" THEN [ok |-> TRUE, v |-> Num(0), i |-> i + 1]
    ELSE ScanDigits(text, i, 0)

RECURSIVE ParseValue(_, _)
RECURSIVE ParseMembers(_, _, _)
RECURSIVE ParseElements(_, _, _)

ParseValue(text, i0) ==
    LET i == SkipWs(text, i0) IN
    IF i > Len(text) THEN ParseFail
    ELSE IF text[i] = "{" THEN
            LET j == SkipWs(text, i + 1) IN
            IF j <= Len(text) /\ text[j] = "}"
            THEN [ok |-> TRUE, v |-> Dict(EmptyDict), i |-> j + 1]
            ELSE ParseMembers(text, j, EmptyDict)
    ELSE IF text[i] = "[" THEN
            LET j == SkipWs(text, i + 1) IN
            IF j <= Len(text) /\ text[j] = "]"
            THEN [ok |-> TRUE, v |-> List(<<>>), i |-> j + 1]
            ELSE ParseElements(text, j, <<>>)
    ELSE IF text[i] = "\"" THEN ScanString(text, i + 1, <<>>)
    ELSE IF text[i] \in DigitSet THEN ScanNumber(text, i)
    ELSE IF HasLiteral(text, i, s_true)
         THEN [ok |-> TRUE, v |-> Bool(TRUE), i |-> i + 4]
    ELSE IF HasLiteral(text, i, s_false)
         THEN [ok |-> TRUE, v |-> Bool(FALSE), i |-> i + 5]
    ELSE IF HasLiteral(text, i, s_null)
         THEN [ok |-> TRUE, v |-> None, i |-> i + 4]
    ELSE ParseFail

\* "key": value pairs up to the closing brace; a repeated key keeps the last.
ParseMembers(text, i, acc) ==
    IF i > Len(text) \/ text[i] # "\"" THEN ParseFail
    ELSE LET key == ScanString(text, i + 1, <<>>) IN
         IF ~key.ok THEN ParseFail
         ELSE LET c == SkipWs(text, key.i) IN
              IF c > Len(text) \/ text[c] # ":" THEN ParseFail
              ELSE LET val == ParseValue(text, c + 1) IN
                   IF ~val.ok THEN ParseFail
                   ELSE LET e == SkipWs(text, val.i)
                            d == DictSet(acc, key.v.s, val.v)
                        IN IF e > Len(text) THEN ParseFail
                           ELSE IF text[e] = "}"
                                THEN [ok |-> TRUE, v |-> Dict(d), i |-> e + 1]
                           ELSE IF text[e] = ","
                                THEN ParseMembers(text, SkipWs(text, e + 1), d)
                           ELSE ParseFail

ParseElements(text, i, acc) ==
    LET val == ParseValue(text, i) IN
    IF ~val.ok THEN ParseFail
    ELSE LET e == SkipWs(text, val.i)
             l == Append(acc, val.v)
         IN IF e > Len(text) THEN ParseFail
            ELSE IF text[e] = "]"
                 THEN [ok |-> TRUE, v |-> List(l), i |-> e + 1]
            ELSE IF text[e] = ","
                 THEN ParseElements(text, SkipWs(text, e + 1), l)
            ELSE ParseFail

\* json.loads(text): the whole text is one value; anything after it is
\* extra data.
JsonLoads(text) ==
    LET r == ParseValue(text, 1) IN
    IF r.ok /\ SkipWs(text, r.i) = Len(text) + 1
    THEN [ok |-> TRUE, v |-> r.v]
    ELSE ParseFail

(***************************************************************************)
(* Dynamic schema resolver.  A callback environment env maps the id of a   *)
(* SchemaCallback to what calling it gives: the value func returns, or     *)
(* Raise when func raises.                                                 *)
(***************************************************************************)
Raise == [t |-> "raise"]

\* SchemaCallback.__call__: self.func(*self.args, **self.kwargs)
Call(cb, env) == env[cb.id]

\* The callbacks evaluate_schema_callbacks reaches: the SchemaCallback values
\* of the dict and of its nested dicts (not of lists, not of returned values).
RECURSIVE ReachedCallbacks(_)
ReachedCallbacks(schema) ==
    UNION { LET v == schema.d[k] IN
            IF v.t = "cb" THEN {v.id}
            ELSE IF v.t = "dict" THEN ReachedCallbacks(v)
            ELSE {} : k \in DOMAIN schema.d }

\* evaluate_schema_callbacks: a new dict, key by key; a SchemaCallback value
\* is replaced by the result of calling it, a dict value by its evaluation,
\* any other value is kept.
RECURSIVE evaluate_schema_callbacks(_, _)
evaluate_schema_callbacks(schema, env) ==
    Dict([k \in DOMAIN schema.d |->
            LET v == schema.d[k] IN
            IF v.t = "cb" THEN Call(v, env)
            ELSE IF v.t = "dict" THEN evaluate_schema_callbacks(v, env)
            ELSE v])

\* The callbacks of the model, and how often each was called.
CallbackIds == {1, 2}
NoCalls == [id \in CallbackIds |-> 0]

\* How often evaluate_schema_callbacks calls the callback: once for each
\* SchemaCallback value with it in the dict and in its nested dicts.
RECURSIVE CallsOfIn(_, _, _)
CallsOfIn(schema, keys, id) ==
    IF keys = {} THEN 0
    ELSE LET k == CHOOSE key \in keys : TRUE
             v == schema.d[k]
         IN (IF v.t = "cb" THEN (IF v.id = id THEN 1 ELSE 0)
             ELSE IF v.t = "dict" THEN CallsOfIn(v, DOMAIN v.d, id)
             ELSE 0)
            + CallsOfIn(schema, keys \ {k}, id)
CallsOf(schema) ==
    [id \in CallbackIds |-> CallsOfIn(schema, DOMAIN schema.d, id)]

\* The calls made when a callback raises: the one that raised once, no
\* other that raises, the others as often as they come before it.
CallsUntilRaise(schema, env) ==
    {calls \in [CallbackIds -> 0..2] :
        \E raised \in CallbackIds :
            /\ env[raised] = Raise
            /\ CallsOf(schema)[raised] > 0
            /\ calls[raised] = 1
            /\ \A id \in CallbackIds \ {raised} :
                  IF env[id] = Raise THEN calls[id] = 0
                  ELSE calls[id] <= CallsOf(schema)[id]}

\* An exception of a called callback propagates out of the evaluation.
EvaluationRaises(schema, env) ==
    \E id \in ReachedCallbacks(schema) : env[id] = Raise

\* only the values of the dict itself are looked at
detect_schemacallback_top(schema) ==
    \E k \in DOMAIN schema.d : schema.d[k].t = "cb"

\* detect_schemacallback: a SchemaCallback among the values of the dict or
\* of its nested dicts.
RECURSIVE detect_schemacallback(_)
detect_schemacallback(schema) ==
    \E k \in DOMAIN schema.d :
        LET v == schema.d[k] IN
        \/ v.t = "cb"
        \/ v.t = "dict" /\ detect_schemacallback(v)

(***************************************************************************)
(* jsonschema.validate(instance, schema) for the keywords type,            *)
(* properties, required, enum, minLength, maxLength, minimum, maximum and  *)
(* items: check_schema first (SchemaError), then the violations of the     *)
(* instance, one of which is raised as the ValidationError.                *)
(***************************************************************************)
SimpleTypes ==
    {s_array, s_boolean, s_integer, s_null, s_number, s_object, s_string}

IsTypeName(v) == v.t = "str" /\ v.s \in SimpleTypes

\* check_schema: the schema is an object and each keyword it uses has a
\* value of the shape the metaschema asks for.
RECURSIVE SchemaIsValid(_)
SchemaIsValid(schema) ==
    /\ schema.t = "dict"
    /\ LET has(k) == k \in DOMAIN schema.d
           val(k) == schema.d[k]
       IN /\ has(s_type) =>
                \/ IsTypeName(val(s_type))
                \/ /\ val(s_type).t = "list"
                   /\ val(s_type).l # <<>>
                   /\ \A i \in 1..Len(val(s_type).l) : IsTypeName(val(s_type).l[i])
          /\ has(s_properties) =>
                /\ val(s_properties).t = "dict"
                /\ \A k \in DOMAIN val(s_properties).d :
                      SchemaIsValid(val(s_properties).d[k])
          /\ has(s_required) =>
                /\ val(s_required).t = "list"
                /\ \A i \in 1..Len(val(s_required).l) :
                      val(s_required).l[i].t = "str"
          /\ has(s_enum) => val(s_enum).t = "list"
          /\ \A k \in {s_minLength, s_maxLength} :
                has(k) => val(k).t = "int" /\ val(k).n >= 0
          /\ \A k \in {s_minimum, s_maximum} : has(k) => val(k).t = "int"
          /\ has(s_items) => SchemaIsValid(val(s_items))

\* The JSON type names an instance answers to (a bool is not a number).
TypesOf(instance) ==
    CASE instance.t = "null" -> {s_null}
      [] instance.t = "bool" -> {s_boolean}
      [] instance.t = "int" -> {s_integer, s_number}
      [] instance.t = "str" -> {s_string}
      [] instance.t = "list" -> {s_array}
      [] instance.t = "dict" -> {s_object}
      [] OTHER -> {}

\* The type names a schema's type keyword allows.
AllowedTypes(tv) ==
    IF tv.t = "list" THEN {tv.l[i].s : i \in 1..Len(tv.l)} ELSE {tv.s}

\* Equality of two JSON values (tags first: values of different kinds differ).
JsonEq(a, b) == a.t = b.t /\ a = b

\* A violation as jsonschema reports it: the failing keyword, the path to
\* the failing instance, the instance itself and the message template.
Violation(validator, path, instance, message) ==
    [validator |-> validator, path |-> path, instance |-> instance,
     message |-> message]

\* iter_errors: every violation of instance against a valid schema.
RECURSIVE Violations(_, _, _)
Violations(instance, schema, path) ==
    LET has(k) == k \in DOMAIN schema.d
        val(k) == schema.d[k]
        byType ==
            IF has(s_type) /\ TypesOf(instance) \cap AllowedTypes(val(s_type)) = {}
            THEN {Violation("type", path, instance, "is not of type")}
            ELSE {}
        byEnum ==
            IF has(s_enum)
               /\ ~\E i \in 1..Len(val(s_enum).l) : JsonEq(val(s_enum).l[i], instance)
            THEN {Violation("enum", path, instance, "is not one of")}
            ELSE {}
        byRequired ==
            IF has(s_required) /\ instance.t = "dict"
               /\ \E i \in 1..Len(val(s_required).l) :
                     val(s_required).l[i].s \notin DOMAIN instance.d
            THEN {Violation("required", path, instance, "is a required property")}
            ELSE {}
        byProperties ==
            IF has(s_properties) /\ instance.t = "dict"
            THEN UNION {Violations(instance.d[k], val(s_properties).d[k],
                                   Append(path, k)) :
                          k \in DOMAIN val(s_properties).d \cap DOMAIN instance.d}
            ELSE {}
        byItems ==
            IF has(s_items) /\ instance.t = "list"
            THEN UNION {Violations(instance.l[i], val(s_items), Append(path, <<ToString(i)>>)) :
                          i \in 1..Len(instance.l)}
            ELSE {}
        byMinLength ==
            IF has(s_minLength) /\ instance.t = "str"
               /\ Len(instance.s) < val(s_minLength).n
            THEN {Violation("minLength", path, instance, "is too short")}
            ELSE {}
        byMaxLength ==
            IF has(s_maxLength) /\ instance.t = "str"
               /\ Len(instance.s) > val(s_maxLength).n
            THEN {Violation("maxLength", path, instance, "is too long")}
            ELSE {}
        byMinimum ==
            IF has(s_minimum) /\ instance.t = "int"
               /\ instance.n < val(s_minimum).n
            THEN {Violation("minimum", path, instance, "is less than the minimum")}
            ELSE {}
        byMaximum ==
            IF has(s_maximum) /\ instance.t = "int"
               /\ instance.n > val(s_maximum).n
            THEN {Violation("maximum", path, instance, "is greater than the maximum")}
            ELSE {}
    IN byType \cup byEnum \cup byRequired \cup byProperties \cup byItems
       \cup byMinLength \cup byMaxLength \cup byMinimum \cup byMaximum

\* The exceptions jsonschema.validate(instance, schema) can raise: none
\* (the empty set) when the instance is valid.
SchemaError == [cls |-> "SchemaError"]
ValidationError(violation) == [cls |-> "ValidationError", error |-> violation]

\* a validation that reports nothing
jsonschema_validate_unchecked(instance, schema) == {}

jsonschema_validate(instance, schema) ==
    IF ~SchemaIsValid(schema) THEN {SchemaError}
    ELSE {ValidationError(e) : e \in Violations(instance, schema, <<>>)}

(***************************************************************************)
(* Text operations of the type formatter.                                  *)
(***************************************************************************)
LowerCase ==
    <<"a", "b", "c", "d", "e", "f", "g", "h", "i", "j", "k", "l", "m",
      "n", "o", "p", "q", "r", "s", "t", "u", "v", "w", "x", "y", "z">>
UpperCase ==
    <<"A", "B", "C", "D", "E", "F", "G", "H", "I", "J", "K", "L", "M",
      "N", "O", "P", "Q", "R", "S", "T", "U", "V", "W", "X", "Y", "Z">>
Upper(c) ==
    IF \E i \in 1..26 : LowerCase[i] = c
    THEN UpperCase[CHOOSE i \in 1..26 : LowerCase[i] = c] ELSE c
Lower(c) ==
    IF \E i \in 1..26 : UpperCase[i] = c
    THEN LowerCase[CHOOSE i \in 1..26 : UpperCase[i] = c] ELSE c

\* The text as it is.
capitalize_as_is(s) == s

\* str.capitalize(): first character upper case, the rest lower case.
capitalize(s) ==
    [i \in 1..Len(s) |-> IF i = 1 THEN Upper(s[i]) ELSE Lower(s[i])]

\* "%d" % n
RECURSIVE NatToText(_)
NatToText(n) ==
    IF n < 10 THEN <<Digits[n + 1]>>
    ELSE NatToText(n \div 10) \o <<Digits[(n % 10) + 1]>>
IntToText(n) == IF n < 0 THEN <<"-">> \o NatToText(-n) ELSE NatToText(n)

\* text.replace(old, new): every occurrence, left to right.
RECURSIVE Replace(_, _, _)
Replace(text, old, new) ==
    IF Len(text) < Len(old) THEN text
    ELSE IF SubSeq(text, 1, Len(old)) = old
         THEN new \o Replace(SubSeq(text, Len(old) + 1, Len(text)), old, new)
         ELSE <<text[1]>> \o Replace(Tail(text), old, new)

\* template % arg for a template with one %s.
RECURSIVE Percent(_, _)
Percent(template, arg) ==
    IF Len(template) < 2 THEN template
    ELSE IF SubSeq(template, 1, 2) = <<"%", "s">>
         THEN arg \o SubSeq(template, 3, Len(template))
         ELSE <<template[1]>> \o Percent(Tail(template), arg)

\* json.dumps(value) with the default separators, for lists and scalars
\* (the strings of the model need no escaping).
RECURSIVE dumps(_)
RECURSIVE DumpItems(_, _)
dumps(v) ==
    CASE v.t = "null" -> s_null
      [] v.t = "bool" -> IF v.b THEN s_true ELSE s_false
      [] v.t = "int" -> IntToText(v.n)
      [] v.t = "str" -> <<"\"">> \o v.s \o <<"\"">>
      [] v.t = "list" -> <<"[">> \o DumpItems(v.l, 1) \o <<"]">>
DumpItems(l, i) ==
    IF i > Len(l) THEN <<>>
    ELSE IF i = Len(l) THEN dumps(l[i])
    ELSE dumps(l[i]) \o <<",", " ">> \o DumpItems(l, i + 1)

(***************************************************************************)
(* apidocjs/output.py: get_array_suffix and format_type.                   *)
(***************************************************************************)
AttributeError == [t |-> "raise", cls |-> "AttributeError"]

\* get_array_suffix: one "[]" per level whose type is exactly 'array'.
RECURSIVE get_array_suffix(_)
get_array_suffix(schema) ==
    IF Get(schema, s_type).t = "str" /\ Get(schema, s_type).s = s_array
    THEN LET items == IF s_items \in DOMAIN schema.d
                      THEN schema.d[s_items] ELSE Dict(EmptyDict)
         IN get_array_suffix(items) \o <<"[", "]">>
    ELSE <<>>

\* Lines 63-68: of a list of types the first that is not 'null'.
EffectiveType(schema) ==
    LET stype == Get(schema, s_type) IN
    IF stype.t = "list"
    THEN LET notNull == {i \in 1..Len(stype.l) :
                           ~(stype.l[i].t = "str" /\ stype.l[i].s = s_null)}
         IN IF notNull = {} THEN stype
            ELSE stype.l[CHOOSE i \in notNull : \A j \in notNull : i <= j]
    ELSE stype

\* Lines 70-72: "=" and the dumped enum without its brackets, every
\* quote-comma-blank made quote-comma.
EnumClause(schema) ==
    LET enum == IF s_enum \in DOMAIN schema.d THEN schema.d[s_enum]
                ELSE Str(<<>>)
    IN IF Falsy(enum)
       THEN (IF enum.t = "str" THEN enum.s ELSE dumps(enum))
       ELSE <<"=">> \o Replace(SubSeq(dumps(enum), 2, Len(dumps(enum)) - 1),
                               <<"\"", ",", " ">>, <<"\"", ",">>)

\* Lines 83-90 and 96-103: a bound counts when it is truthy.
Present(v) == ~Falsy(v)

\* format_type(schema, template): the text, or AttributeError when the
\* type has no capitalize().
RECURSIVE format_type(_, _)
format_type(schema, template0) ==
    LET stype == EffectiveType(schema)
        enum == EnumClause(schema)
        template == IF template0.t = "null"
                    THEN <<"%", "s">> \o get_array_suffix(schema)
                    ELSE template0.s
        isType(name) == stype.t = "str" /\ stype.s = name
        base == Percent(template, capitalize(stype.s))
        lo == Get(schema, IF isType(s_string) THEN s_minLength ELSE s_minimum)
        hi == Get(schema, IF isType(s_string) THEN s_maxLength ELSE s_maximum)
    IN IF isType(s_array) /\ s_items \in DOMAIN schema.d
       THEN format_type(schema.d[s_items], Str(template))
       ELSE IF isType(s_string) /\ Present(lo) /\ Present(hi)
       THEN Str(base \o <<"{">> \o IntToText(lo.n) \o <<".", ".">>
                \o IntToText(hi.n) \o <<"}">> \o enum)
       ELSE IF isType(s_string) /\ Present(lo)
       THEN Str(base \o <<"{">> \o IntToText(lo.n) \o <<".", ".", "}">> \o enum)
       ELSE IF isType(s_string) /\ Present(hi)
       THEN Str(base \o <<"{", ".", ".">> \o IntToText(hi.n) \o <<"}">> \o enum)
       ELSE IF isType(s_number) /\ Present(lo) /\ Present(hi)
       THEN Str(base \o <<"{">> \o IntToText(lo.n) \o <<"~">>
                \o IntToText(hi.n) \o <<"}">> \o enum)
       ELSE IF isType(s_number) /\ Present(lo)
       THEN Str(base \o <<"{", ">", "=">> \o IntToText(lo.n) \o <<"}">> \o enum)
       ELSE IF isType(s_number) /\ Present(hi)
       THEN Str(base \o <<"{", "<", "=">> \o IntToText(hi.n) \o <<"}">> \o enum)
       ELSE IF stype.t # "str" THEN AttributeError
       ELSE Str(base \o enum)

(***************************************************************************)
(* The validate() pipeline: one invocation of _wrapper for one request.    *)
(***************************************************************************)
VARIABLES
    input_schema,               \* validate(input_schema=...), kept as _wrapper.input_schema
    output_schema,              \* validate(output_schema=...)
    on_empty_404,               \* validate(on_empty_404=...)
    input_schema_has_callback,  \* computed once, when the decorator is applied
    env,                        \* what each SchemaCallback gives when called
    request_body,               \* self.request.body, bytes
    pc,                         \* position of the invocation in _wrapper
    input_,                     \* local input_
    resolved_schema,            \* local input_schema, after the evaluation of callbacks
    self_body,                  \* self.body
    output,                     \* local output
    exc,                        \* the exception that left _wrapper
    response,                   \* the envelopes written to the client
    body_reads,                 \* reads of self.request.body
    handler_calls,              \* calls of rh_method
    trace,                      \* the stages performed, in order
    fmt_schema,                 \* the argument of format_type
    fmt_result,                 \* what format_type returned
    tree,                       \* the argument of evaluate_schema_callbacks
    tree_env,                   \* its callback environment
    tree_result,                \* what evaluate_schema_callbacks returned
    tree_detected,              \* what detect_schemacallback returned
    tree_calls,                 \* the callbacks called, how often each
    field_args,                 \* the arguments of format_field_name
    field_result,               \* what format_field_name returned
    doc_schema,                 \* the argument of get_output_schema_doc
    doc_result,                 \* what get_output_schema_doc returned
    helper,                     \* the SchemaHelper as_dict is called on
    helper_context,             \* the requesthandler as_dict is given
    helper_result,              \* what as_dict returned
    callback_calls,             \* the callbacks the invocation called, how often each
    current,                    \* the request whose _wrapper is running, 0 for none
    parked                      \* the requests that are not running, with their locals

pipeline_vars ==
    <<input_schema, output_schema, on_empty_404, input_schema_has_callback,
      env, request_body, pc, input_, resolved_schema, self_body, output, exc,
      response, body_reads, handler_calls, trace>>
format_vars == <<fmt_schema, fmt_result>>
resolver_vars == <<tree, tree_env, tree_result, tree_detected, tree_calls>>
doc_vars == <<field_args, field_result, doc_schema, doc_result>>
helper_vars == <<helper, helper_context, helper_result>>
sched_vars == <<current, parked>>
other_vars == <<doc_vars, helper_vars, sched_vars, callback_calls>>
vars == <<pipeline_vars, format_vars, resolver_vars, other_vars>>

Unset == [t |-> "unset"]
NoException == [cls |-> "none"]

\* Schema literals.
\* A SchemaHelper has the contents stored in it as a dict (data) and
\* attributes by name (attrs), each callable or not; what a method returns
\* is written with FromContext where it gives back something of its
\* requesthandler.
s_get_ == <<"g", "e", "t", "_">>
s__key == <<"_", "k", "e", "y">>
s_myschema == <<"m", "y", "s", "c", "h", "e", "m", "a">>

SchemaHelper(data, attrs) == [t |-> "helper", data |-> data, attrs |-> attrs]
Method(returns) == [callable |-> TRUE, returns |-> returns]
Attribute(value) == [callable |-> FALSE, returns |-> value]
FromContext == [t |-> "context"]
MethodName(key) == s_get_ \o key \o s__key

TypeOnly(name) == MkDict({<<s_type, Str(name)>>})
ObjectSchema(properties, required) ==
    MkDict({<<s_type, Str(s_object)>>, <<s_properties, properties>>,
            <<s_required, List(required)>>})

PublishedOptional ==
    ObjectSchema(MkDict({<<s_published, TypeOnly(s_boolean)>>}), <<>>)
PublishedRequired ==
    ObjectSchema(MkDict({<<s_published, TypeOnly(s_boolean)>>}),
                 <<Str(s_published)>>)
\* the enum of name is computed per request
NameFromCallback ==
    ObjectSchema(MkDict({<<s_name,
                           MkDict({<<s_type, Str(s_string)>>,
                                   <<s_enum, SchemaCallback(1)>>})>>}),
                 <<Str(s_name)>>)
\* the properties are computed per request
PropertiesFromCallback ==
    MkDict({<<s_type, Str(s_object)>>, <<s_properties, SchemaCallback(2)>>})

\* the schema of name is a helper, like MySchema of the tests
NameFromHelper ==
    ObjectSchema(MkDict({<<s_name,
                           SchemaHelper(Dict(EmptyDict),
                               [attrname \in {MethodName(s_enum)} |->
                                   Method(List(<<Str(s_A), Str(s_B)>>))])>>}),
                 <<Str(s_name)>>)

InputSchemas ==
    {None, PublishedOptional, PublishedRequired, NameFromCallback,
     PropertiesFromCallback, NameFromHelper}

OutputSchemas ==
    {None,
     TypeOnly(s_string),
     ObjectSchema(MkDict({<<s_name, TypeOnly(s_string)>>}), <<Str(s_name)>>),
     MkDict({<<s_type, Str(s_array)>>, <<s_items, TypeOnly(s_integer)>>}),
     MkDict({<<s_type, Str(s_integer)>>, <<s_minimum, Num(1)>>})}

\* Callback 1 gives the allowed names or raises; callback 2 gives a
\* properties dict, with or without a callback of its own in it.
CallbackEnvs ==
    [{1, 2} -> {List(<<Str(s_A), Str(s_B)>>), Raise,
                MkDict({<<s_name, TypeOnly(s_string)>>}),
                MkDict({<<s_name, MkDict({<<s_type, Str(s_string)>>,
                                          <<s_enum, SchemaCallback(1)>>})>>})}]
PipelineEnvs ==
    {e \in CallbackEnvs : e[1].t \in {"list", "raise"} /\ e[2].t = "dict"}

\* Request bodies: JSON texts as a client encodes them, and bytes that are
\* not UTF-8.
Quoted(s) == <<"\"">> \o s \o <<"\"">>
BodyTexts ==
    { <<"{", "}">>,
      <<"{">> \o Quoted(s_published) \o <<":">> \o s_true \o <<"}">>,
      <<"{">> \o Quoted(s_published) \o <<":", " ", "1", "}">>,
      <<"{">> \o Quoted(s_name) \o <<":">> \o Quoted(s_A) \o <<"}">>,
      <<"{">> \o Quoted(s_name) \o <<":">> \o Quoted(<<"C">>) \o <<"}">>,
      <<"[", "1", "]">>,
      <<"n", "o", "t", "-", "j", "s", "o", "n">>,
      <<>> }
RequestBodies == {Encode(t) : t \in BodyTexts} \cup {<<123, 255, 125>>}

\* What rh_method can return.
HandlerResults ==
    { None, Bool(FALSE), Num(0), Num(1), Str(<<>>), Str(s_A),
      Dict(EmptyDict), MkDict({<<s_name, Str(s_A)>>}),
      MkDict({<<s_name, Num(1)>>}), List(<<>>), List(<<Num(1)>>) }
Future(v) == [t |-> "future", result |-> v]
is_future(v) == v.t = "future"

\* the body read and parsed whether or not an input schema is declared
HasInputSchema_always(schema) == TRUE
\* Line 181: input_schema is not None.
HasInputSchema(schema) == schema.t # "null"

\* the ValueError of decode or json.loads, not caught
MalformedInput_uncaught == [cls |-> "ValueError"]

\* The exceptions _wrapper raises.
MalformedInput ==
    ValidationError(Violation("<unset>", <<>>, Unset,
                              "Input is malformed; could not decode JSON object."))
APIError(status_code, message) ==
    [cls |-> "APIError", status_code |-> status_code, log_message |-> message]
\* str(e) of a jsonschema ValidationError: message, failing keyword,
\* path and the instance, as text.
str_of_error(e) ==
    <<e.instance, e.message, "Failed validating", e.validator,
      "On instance", e.path>>
\* the ValidationError of the output validation, not caught
TypeError_not_caught(text) ==
    ValidationError(Violation(text[4], text[6], text[1], text[2]))
TypeError(text) == [cls |-> "TypeError", args |-> text]
\* an exception of a callback or of the handler itself
UserException(origin) == [cls |-> "Exception", origin |-> origin]

\* JSendMixin.success(data): the success envelope.
success(data) == [status |-> "success", data |-> data]

\* The error envelope the request handler writes for an exception that
\* left _wrapper.
InternalServerError ==
    [status |-> "error", code |-> 500, message |-> "Internal Server Error"]
write_error(e) ==
    CASE e.cls = "APIError" ->
            [status |-> "fail", code |-> e.status_code, data |-> e.log_message]
      [] e.cls = "ValidationError" ->
            [status |-> "fail", code |-> 400, data |-> e.error]
      [] OTHER -> InternalServerError

\* The schema the output is validated against, and the wrapped output.
WrappedOutputSchema(schema) ==
    MkDict({<<s_type, Str(s_object)>>,
            <<s_properties, MkDict({<<s_result, schema>>})>>,
            <<s_required, List(<<Str(s_result)>>)>>})
\* the output validated as it is, without the wrapping object
WrappedOutput_bare(value) == value
WrappedOutput(value) == MkDict({<<s_result, value>>})

Init ==
    /\ input_schema \in InputSchemas
    /\ output_schema \in OutputSchemas
    /\ on_empty_404 \in BOOLEAN
    /\ input_schema_has_callback =
          IF input_schema.t # "null" THEN detect_schemacallback(input_schema)
          ELSE FALSE
    /\ env \in PipelineEnvs
    /\ request_body \in RequestBodies
    /\ pc = "ReceiveInput"
    /\ input_ = Unset
    /\ resolved_schema = input_schema
    /\ self_body = Unset
    /\ output = Unset
    /\ exc = NoException
    /\ response = <<>>
    /\ body_reads = 0
    /\ handler_calls = 0
    /\ trace = <<>>
    /\ fmt_schema = None /\ fmt_result = None
    /\ tree = None /\ tree_env = <<>> /\ tree_result = None
    /\ tree_detected = None /\ tree_calls = <<>>
    /\ callback_calls = NoCalls /\ current = 0 /\ parked = <<>>
    /\ field_args = None /\ field_result = None
    /\ doc_schema = None /\ doc_result = None
    /\ helper = None /\ helper_context = 0 /\ helper_result = None

config_vars ==
    <<input_schema, output_schema, on_empty_404, input_schema_has_callback,
      env, request_body>>

\* raise e: the exception leaves _wrapper.
RaiseException(e) ==
    /\ exc' = e
    /\ pc' = "Raised"

\* Lines 180-192 and 208-209: without an input schema input_ is None;
\* otherwise the body is decoded and parsed, a ValueError of either becoming
\* the "Input is malformed" ValidationError.
ReceiveInput ==
    /\ pc = "ReceiveInput"
    /\ trace' = Append(trace, "ReceiveInput")
    /\ IF HasInputSchema(input_schema)
       THEN /\ body_reads' = body_reads + 1
            /\ LET decoded == Decode(request_body)
                   parsed == JsonLoads(decoded.text)
               IN IF decoded.ok /\ parsed.ok
                  THEN /\ input_' = parsed.v
                       /\ pc' = "ResolveInput"
                       /\ UNCHANGED exc
                  ELSE /\ RaiseException(MalformedInput)
                       /\ UNCHANGED input_
       ELSE /\ input_' = None
            /\ pc' = "Invoke"
            /\ UNCHANGED <<body_reads, exc>>
    /\ UNCHANGED <<config_vars, resolved_schema, self_body, output, response,
                   handler_calls, format_vars, resolver_vars,
                   other_vars>>

\* the evaluated schema stored as the registered one
ResolveInput_in_place ==
    /\ pc = "ResolveInput"
    /\ IF input_schema_has_callback /\ ~EvaluationRaises(input_schema, env)
       THEN /\ trace' = Append(trace, "ResolveInput")
            /\ resolved_schema' = evaluate_schema_callbacks(input_schema, env)
            /\ input_schema' = resolved_schema'
            /\ callback_calls' = CallsOf(input_schema)
            /\ pc' = "ValidateInput"
       ELSE /\ pc' = "ValidateInput"
            /\ UNCHANGED <<trace, resolved_schema, input_schema,
                           callback_calls>>
    /\ UNCHANGED <<output_schema, on_empty_404, input_schema_has_callback,
                   env, request_body, exc, input_, self_body, output,
                   response, body_reads, handler_calls, format_vars,
                   resolver_vars, doc_vars, helper_vars, sched_vars>>

\* Lines 197-199: the callbacks are evaluated when the decorator detected one.
ResolveInput ==
    /\ pc = "ResolveInput"
    /\ IF input_schema_has_callback
       THEN /\ trace' = Append(trace, "ResolveInput")
            /\ IF EvaluationRaises(input_schema, env)
               THEN /\ RaiseException(UserException("callback"))
                    /\ callback_calls' \in CallsUntilRaise(input_schema, env)
                    /\ UNCHANGED resolved_schema
               ELSE /\ resolved_schema' =
                          evaluate_schema_callbacks(input_schema, env)
                    /\ callback_calls' = CallsOf(input_schema)
                    /\ pc' = "ValidateInput"
                    /\ UNCHANGED exc
       ELSE /\ pc' = "ValidateInput"
            /\ UNCHANGED <<trace, resolved_schema, exc, callback_calls>>
    /\ UNCHANGED <<config_vars, input_, self_body, output, response,
                   body_reads, handler_calls, format_vars, resolver_vars,
                   doc_vars, helper_vars, sched_vars>>

\* Lines 202-207: jsonschema.validate(input_, input_schema, ...).
ValidateInput ==
    /\ pc = "ValidateInput"
    /\ trace' = Append(trace, "ValidateInput")
    /\ LET raised == jsonschema_validate(input_, resolved_schema) IN
       IF raised = {}
       THEN /\ pc' = "Invoke"
            /\ UNCHANGED exc
       ELSE \E e \in raised : RaiseException(e)
    /\ UNCHANGED <<config_vars, input_, resolved_schema, self_body, output,
                   response, body_reads, handler_calls, format_vars,
                   resolver_vars, other_vars>>

\* Lines 213-215: self.body is set and rh_method is called; it returns a
\* value or a Future, or raises.
Invoke ==
    /\ pc = "Invoke"
    /\ trace' = Append(trace, "Invoke")
    /\ self_body' = input_
    /\ handler_calls' = handler_calls + 1
    /\ \/ \E v \in HandlerResults :
             /\ output' = v
             /\ pc' = "CheckEmpty"
             /\ UNCHANGED exc
       \/ \E v \in HandlerResults :
             /\ output' = Future(v)
             /\ pc' = "AwaitHandler"
             /\ UNCHANGED exc
       \/ /\ RaiseException(UserException("handler"))
          /\ UNCHANGED output
    /\ UNCHANGED <<config_vars, input_, resolved_schema, response, body_reads,
                   format_vars, resolver_vars,
                   other_vars>>

\* Lines 218-219: output = yield output.
AwaitHandler ==
    /\ pc = "AwaitHandler"
    /\ is_future(output)
    /\ \/ /\ output' = output.result
          /\ pc' = "CheckEmpty"
          /\ UNCHANGED exc
       \/ /\ RaiseException(UserException("handler"))
          /\ UNCHANGED output
    /\ UNCHANGED <<config_vars, input_, resolved_schema, self_body, response,
                   body_reads, handler_calls, trace, format_vars,
                   resolver_vars, other_vars>>

\* Lines 222-223: a falsy output with on_empty_404 raises APIError(404).
CheckEmpty ==
    /\ pc = "CheckEmpty"
    /\ IF Falsy(output) /\ on_empty_404
       THEN RaiseException(APIError(404, "Resource not found."))
       ELSE /\ pc' = "ValidateOutput"
            /\ UNCHANGED exc
    /\ UNCHANGED <<config_vars, input_, resolved_schema, self_body, output,
                   response, body_reads, handler_calls, trace, format_vars,
                   resolver_vars, other_vars>>

\* Lines 225-244: {"result": output} is validated against the wrapped output
\* schema; a ValidationError is raised again as TypeError(str(e)).
ValidateOutput ==
    /\ pc = "ValidateOutput"
    /\ IF output_schema.t # "null"
       THEN /\ trace' = Append(trace, "ValidateOutput")
            /\ LET raised ==
                     jsonschema_validate(WrappedOutput(output),
                                         WrappedOutputSchema(output_schema))
               IN IF raised = {}
                  THEN /\ pc' = "Emit"
                       /\ UNCHANGED exc
                  ELSE \E e \in raised :
                          IF e.cls = "ValidationError"
                          THEN RaiseException(TypeError(str_of_error(e.error)))
                          ELSE RaiseException(e)
       ELSE /\ pc' = "Emit"
            /\ UNCHANGED <<trace, exc>>
    /\ UNCHANGED <<config_vars, input_, resolved_schema, self_body, output,
                   response, body_reads, handler_calls, format_vars,
                   resolver_vars, other_vars>>

\* the wrapped output written instead of the output
Emit_wrapped ==
    /\ pc = "Emit"
    /\ trace' = Append(trace, "Emit")
    /\ response' = Append(response, success(WrappedOutput(output)))
    /\ pc' = "Success"
    /\ UNCHANGED <<config_vars, input_, resolved_schema, self_body, output,
                   exc, body_reads, handler_calls, format_vars, resolver_vars,
                   other_vars>>

\* Line 248: self.success(output).
Emit ==
    /\ pc = "Emit"
    /\ trace' = Append(trace, "Emit")
    /\ response' = Append(response, success(output))
    /\ pc' = "Success"
    /\ UNCHANGED <<config_vars, input_, resolved_schema, self_body, output,
                   exc, body_reads, handler_calls, format_vars, resolver_vars,
                   other_vars>>

\* The exception that left _wrapper is turned into the error envelope.
WriteError ==
    /\ pc = "Raised"
    /\ response' = Append(response, write_error(exc))
    /\ pc' = "Failed"
    /\ UNCHANGED <<config_vars, input_, resolved_schema, self_body, output,
                   exc, body_reads, handler_calls, trace, format_vars,
                   resolver_vars, other_vars>>

Next ==
    \/ ReceiveInput
    \/ ResolveInput
    \/ ValidateInput
    \/ Invoke
    \/ AwaitHandler
    \/ CheckEmpty
    \/ ValidateOutput
    \/ Emit
    \/ WriteError

Spec == Init /\ [][Next]_vars

(***************************************************************************)
(* Properties of the pipeline.                                             *)
(***************************************************************************)
InTrace(stage) == \E i \in 1..Len(trace) : trace[i] = stage
Done == pc \in {"Success", "Failed"}
Raised == pc \in {"Raised", "Failed"}
NoSuccessWritten ==
    /\ ~InTrace("Emit")
    /\ \A i \in 1..Len(response) : response[i].status # "success"
HandlerReturned == output.t \notin {"unset", "future"}

StageIndex(stage) ==
    CASE stage = "ReceiveInput" -> 1
      [] stage = "ResolveInput" -> 2
      [] stage = "ValidateInput" -> 3
      [] stage = "Invoke" -> 4
      [] stage = "ValidateOutput" -> 5
      [] stage = "Emit" -> 6

\* The failure kinds of the pipeline, read off the exception that left it.
FailedKind ==
    CASE exc.cls = "ValidationError" /\ exc.error.validator = "<unset>" ->
            "MalformedInput"
      [] exc.cls = "ValidationError" /\ exc.error.validator # "<unset>" ->
            "InputValidation"
      [] exc.cls = "TypeError" -> "OutputContract"
      [] exc.cls = "APIError" -> "NotFound"
      [] exc.cls = "Exception" /\ exc.origin = "callback" -> "ResolutionFailure"
      [] OTHER -> "Other"

\* The request body decodes and parses.
BodyIsJson ==
    LET decoded == Decode(request_body) IN
    decoded.ok /\ JsonLoads(decoded.text).ok

\* The input validation was performed and found the parsed body in violation
\* of the resolved input schema.
InputViolations ==
    IF input_schema.t # "null" /\ InTrace("ValidateInput")
       /\ SchemaIsValid(resolved_schema)
    THEN Violations(input_, resolved_schema, <<>>)
    ELSE {}

\* The output violates the declared output schema.
OutputViolations ==
    IF output_schema.t # "null" /\ HandlerReturned
    THEN Violations(output, output_schema, <<>>)
    ELSE {}

\* C1: with an input schema declared the stages are performed in the order
\* ReceiveInput, ResolveInput, ValidateInput, Invoke, ValidateOutput, Emit;
\* the handler is invoked only after the parsed body passed the input
\* validation; a body violating the resolved input schema ends in
\* Failed(InputValidation) with one of the validator's violations, the
\* handler not invoked and no success envelope written.
C1_InputValidatedBeforeInvoke ==
    /\ \A i, j \in 1..Len(trace) :
          i < j => StageIndex(trace[i]) < StageIndex(trace[j])
    /\ input_schema.t # "null" /\ InTrace("Invoke") =>
          /\ InTrace("ReceiveInput") /\ InTrace("ValidateInput")
          /\ InTrace("ResolveInput") <=> detect_schemacallback(input_schema)
          /\ SchemaIsValid(resolved_schema)
          /\ Violations(input_, resolved_schema, <<>>) = {}
    /\ input_schema.t # "null" /\ pc = "Success" =>
          /\ InTrace("Invoke") /\ InTrace("Emit")
          /\ InTrace("ValidateOutput") <=> output_schema.t # "null"
    /\ InputViolations # {} =>
          /\ Raised
          /\ exc.cls = "ValidationError"
          /\ exc.error \in InputViolations
          /\ FailedKind = "InputValidation"
          /\ handler_calls = 0 /\ ~InTrace("Invoke")
          /\ NoSuccessWritten /\ ~InTrace("Emit")

C1_Witness ==
    /\ pc = "Failed"
    /\ InputViolations # {}
    /\ exc.cls = "ValidationError" /\ exc.error.validator = "type"
    /\ handler_calls = 0

\* C2: with an input schema declared, a body that does not decode as UTF-8
\* or does not parse as JSON ends in Failed(MalformedInput), raised as the
\* "Input is malformed" ValidationError; no schema resolution, no
\* validation, no handler call and no success envelope in that run.
C2_MalformedBodyFails ==
    input_schema.t # "null" /\ ~BodyIsJson /\ pc # "ReceiveInput" =>
        /\ Raised
        /\ exc.cls = "ValidationError"
        /\ exc.error.message = "Input is malformed; could not decode JSON object."
        /\ FailedKind = "MalformedInput"
        /\ trace = <<"ReceiveInput">>
        /\ resolved_schema = input_schema
        /\ handler_calls = 0
        /\ NoSuccessWritten

C2_Witness ==
    /\ pc = "Failed"
    /\ input_schema.t # "null"
    /\ ~Decode(request_body).ok
    /\ FailedKind = "MalformedInput"

C2_WitnessNotJson ==
    /\ pc = "Failed"
    /\ input_schema.t # "null"
    /\ Decode(request_body).ok /\ ~BodyIsJson
    /\ FailedKind = "MalformedInput"

\* C3: with an output schema declared the handler result is validated as
\* {result: value} against the wrapping schema: a result that violates the
\* output schema ends in Failed(OutputContract), a TypeError and not the
\* ValidationError of the input failures, and self.success is not called; a
\* result that satisfies the output schema, a top-level scalar or array
\* too, is accepted.
C3_OutputContract ==
    /\ InTrace("ValidateOutput") =>
          /\ output_schema.t # "null" /\ HandlerReturned
          /\ OutputViolations # {} =>
                /\ Raised
                /\ exc.cls = "TypeError"
                /\ FailedKind = "OutputContract"
                /\ FailedKind \notin {"MalformedInput", "InputValidation"}
                /\ NoSuccessWritten /\ ~InTrace("Emit")
          /\ OutputViolations = {} =>
                /\ pc \in {"Emit", "Success"}
                /\ exc = NoException
    /\ exc.cls = "TypeError" => InTrace("ValidateOutput") /\ OutputViolations # {}

C3_Witness ==
    /\ pc = "Failed"
    /\ exc.cls = "TypeError"
    /\ OutputViolations # {}
    /\ FailedKind = "OutputContract"

C3_WitnessScalarAccepted ==
    /\ pc = "Success"
    /\ InTrace("ValidateOutput")
    /\ output.t \in {"str", "int", "list"}

\* C4: when the handler returned, the input validation (if an input schema
\* is declared) and the output validation (if an output schema is declared)
\* succeeded and the empty-result policy is not triggered, the run ends in
\* Success; the one envelope written is the success envelope whose data is
\* the value the handler returned, not the {result: ...} wrapper.
C4_SuccessEnvelope ==
    /\ pc = "Success" =>
          /\ Len(response) = 1
          /\ response[1].status = "success"
          /\ response[1].data = output
          /\ HandlerReturned
    /\ ( /\ Done
         /\ HandlerReturned
         /\ ~(on_empty_404 /\ output \in
                {None, Bool(FALSE), Num(0), Str(<<>>), List(<<>>), Dict(EmptyDict)})
         /\ OutputViolations = {} ) => pc = "Success"

\* the operation with no required property, called with the body {}
C4_Witness ==
    /\ pc = "Success"
    /\ input_schema = PublishedOptional
    /\ request_body = Encode(<<"{", "}">>)
    /\ output_schema.t # "null"
    /\ output.t = "dict"
    /\ response = <<[status |-> "success", data |-> output]>>

\* C5: a falsy handler result with on_empty_404 ends in Failed(NotFound):
\* the output validation is not performed and nothing is emitted, also when
\* the result violates the output schema; without on_empty_404 a falsy
\* result goes through the output validation and is emitted like any other.
FalsyResults ==
    {None, Bool(FALSE), Num(0), Str(<<>>), List(<<>>), Dict(EmptyDict)}

C5_EmptyResultPolicy ==
    /\ ( /\ HandlerReturned /\ pc # "CheckEmpty"
         /\ output \in FalsyResults /\ on_empty_404 ) =>
            /\ Raised
            /\ exc.cls = "APIError" /\ exc.status_code = 404
            /\ FailedKind = "NotFound"
            /\ ~InTrace("ValidateOutput") /\ ~InTrace("Emit")
            /\ NoSuccessWritten
    /\ exc.cls = "APIError" =>
            HandlerReturned /\ output \in FalsyResults /\ on_empty_404
    /\ ( /\ HandlerReturned /\ Done
         /\ output \in FalsyResults /\ ~on_empty_404 ) =>
            /\ InTrace("ValidateOutput") <=> output_schema.t # "null"
            /\ pc = "Success" <=> OutputViolations = {}
            /\ pc = "Success" => InTrace("Emit")

C5_Witness ==
    /\ pc = "Failed"
    /\ FailedKind = "NotFound"
    /\ on_empty_404
    /\ output \in FalsyResults
    /\ OutputViolations # {}

C5_WitnessProceeds ==
    /\ pc = "Success"
    /\ ~on_empty_404
    /\ output \in FalsyResults
    /\ InTrace("ValidateOutput")

\* C6: what the client gets for an OutputContract failure is the fixed
\* internal-server-error envelope: it holds neither the output nor the
\* violation, and is the same for every violating output.
C6_OutputFailureDoesNotLeak ==
    pc = "Failed" /\ HandlerReturned /\ OutputViolations # {}
        /\ InTrace("ValidateOutput") =>
        /\ Len(response) = 1
        /\ response[1].status = "error"
        /\ response[1] =
              [status |-> "error", code |-> 500,
               message |-> "Internal Server Error"]

C6_Witness ==
    /\ pc = "Failed"
    /\ FailedKind = "OutputContract"
    /\ exc.args[1] = output
    /\ response = <<InternalServerError>>

\* C7 as stated: every finished invocation read the request body exactly
\* once, wrote exactly one envelope and invoked the handler at most once.
C7_ExactlyOneBodyRead ==
    Done => /\ body_reads = 1
            /\ Len(response) = 1
            /\ handler_calls \in {0, 1}

\* C7 amended: every finished invocation read the request body exactly once
\* when an input schema is declared and not at all when none is, wrote
\* exactly one envelope and invoked the handler at most once.
C7_SideEffects ==
    /\ body_reads <= 1 /\ handler_calls <= 1 /\ Len(response) <= 1
    /\ Done =>
          /\ body_reads = IF input_schema.t # "null" THEN 1 ELSE 0
          /\ Len(response) = 1
          /\ handler_calls \in {0, 1}
          /\ handler_calls = 1 <=> InTrace("Invoke")

C7_Witness ==
    /\ pc = "Success"
    /\ input_schema.t = "null"
    /\ body_reads = 0
    /\ handler_calls = 1
    /\ Len(response) = 1

C7_WitnessFailed ==
    /\ pc = "Failed"
    /\ input_schema.t # "null"
    /\ body_reads = 1
    /\ handler_calls = 0
    /\ Len(response) = 1

\* C8: without an input schema self.body is None and the run goes from
\* ReceiveInput straight to Invoke: the body is not read or parsed, no
\* resolution and no input validation take place, and no body, malformed
\* or not, gives MalformedInput or InputValidation.
C8_NoInputSchema ==
    input_schema.t = "null" =>
        /\ body_reads = 0
        /\ ~InTrace("ResolveInput") /\ ~InTrace("ValidateInput")
        /\ resolved_schema = None
        /\ pc # "ReceiveInput" => input_ = None
        /\ pc \notin {"ReceiveInput", "Invoke"} =>
              /\ self_body = None
              /\ handler_calls = 1
              /\ SubSeq(trace, 1, 2) = <<"ReceiveInput", "Invoke">>
        /\ pc \notin {"ResolveInput", "ValidateInput"}
        /\ Raised => FailedKind \notin {"MalformedInput", "InputValidation"}

C8_Witness ==
    /\ pc = "Success"
    /\ input_schema.t = "null"
    /\ ~BodyIsJson
    /\ self_body = None
    /\ trace[2] = "Invoke"

(***************************************************************************)
(* The type formatter applied to the schemas of a bounded family: leaves   *)
(* of every kind, with or without bounds and enum, under 0 to              *)
(* MaxArrayDepth arrays, types given as a name or as a union with 'null'.  *)
(***************************************************************************)
PipelineIdle ==
    /\ input_schema = None /\ output_schema = None /\ on_empty_404 = FALSE
    /\ input_schema_has_callback = FALSE
    /\ env = <<>> /\ request_body = <<>>
    /\ input_ = Unset /\ resolved_schema = None /\ self_body = Unset
    /\ output = Unset /\ exc = NoException /\ response = <<>>
    /\ body_reads = 0 /\ handler_calls = 0 /\ trace = <<>>

LeafKinds == {s_string, s_number, s_integer, s_boolean}
OptionalBounds == {None} \cup {Num(n) : n \in 0..MaxBoundValue}
OptionalEnums ==
    {None, List(<<Str(s_A), Str(s_B)>>), List(<<Num(1), Num(2)>>)}

TypeValue(name, union) ==
    IF union THEN List(<<Str(name), Str(s_null)>>) ELSE Str(name)
LowKey(kind) == IF kind = s_string THEN s_minLength ELSE s_minimum
HighKey(kind) == IF kind = s_string THEN s_maxLength ELSE s_maximum

\* a leaf schema; a bound or enum that is None is left out
LeafSchema(kind, union, lo, hi, enum) ==
    MkDict({p \in {<<s_type, TypeValue(kind, union)>>, <<LowKey(kind), lo>>,
                   <<HighKey(kind), hi>>, <<s_enum, enum>>} : p[2].t # "null"})

RECURSIVE ArrayOf(_, _, _)
ArrayOf(schema, depth, union) ==
    IF depth = 0 THEN schema
    ELSE MkDict({<<s_type, TypeValue(s_array, union)>>,
                 <<s_items, ArrayOf(schema, depth - 1, union)>>})

FormatSchemas ==
    {ArrayOf(LeafSchema(kind, union, lo, hi, enum), depth, arrayUnion) :
        kind \in LeafKinds, union \in BOOLEAN, lo \in OptionalBounds,
        hi \in OptionalBounds, enum \in OptionalEnums,
        depth \in 0..MaxArrayDepth, arrayUnion \in BOOLEAN}

InitFormat ==
    /\ PipelineIdle
    /\ pc = "Format"
    /\ fmt_schema \in FormatSchemas
    /\ fmt_result = None
    /\ tree = None /\ tree_env = <<>> /\ tree_result = None
    /\ tree_detected = None /\ tree_calls = <<>>
    /\ callback_calls = NoCalls /\ current = 0 /\ parked = <<>>
    /\ field_args = None /\ field_result = None
    /\ doc_schema = None /\ doc_result = None
    /\ helper = None /\ helper_context = 0 /\ helper_result = None

\* format_type(schema)
FormatType ==
    /\ pc = "Format"
    /\ fmt_result' = format_type(fmt_schema, None)
    /\ pc' = "Formatted"
    /\ UNCHANGED <<config_vars, input_, resolved_schema, self_body, output,
                   exc, response, body_reads, handler_calls, trace,
                   fmt_schema, resolver_vars, other_vars>>

NextFormat == FormatType

SpecFormat == InitFormat /\ [][NextFormat]_vars

\* The schema found under the arrays.
RECURSIVE InnermostSchema(_)
InnermostSchema(schema) ==
    IF s_items \in DOMAIN schema.d THEN InnermostSchema(schema.d[s_items])
    ELSE schema

\* The kind of a leaf: its type, or the first member of a union.
LeafKind(leaf) ==
    IF leaf.d[s_type].t = "list" THEN leaf.d[s_type].l[1].s
    ELSE leaf.d[s_type].s

\* The text from the first "{" to the first "}" after it; empty without.
BraceClause(text) ==
    LET opens == {i \in 1..Len(text) : text[i] = "{"}
        first == CHOOSE i \in opens : \A j \in opens : i <= j
        closes == {i \in first..Len(text) : text[i] = "}"}
        last == CHOOSE i \in closes : \A j \in closes : i <= j
    IN IF opens = {} THEN <<>> ELSE SubSeq(text, first, last)

\* The range clause by the presence of the bounds.
RangeByPresence(leaf) ==
    LET kind == LeafKind(leaf)
        has(k) == k \in DOMAIN leaf.d
        lo == IntToText(leaf.d[LowKey(kind)].n)
        hi == IntToText(leaf.d[HighKey(kind)].n)
    IN IF kind = s_string
       THEN (IF has(s_minLength) /\ has(s_maxLength)
                THEN <<"{">> \o lo \o <<".", ".">> \o hi \o <<"}">>
             ELSE IF has(s_minLength) THEN <<"{">> \o lo \o <<".", ".", "}">>
             ELSE IF has(s_maxLength) THEN <<"{", ".", ".">> \o hi \o <<"}">>
             ELSE <<>>)
       ELSE IF kind = s_number
       THEN (IF has(s_minimum) /\ has(s_maximum)
                THEN <<"{">> \o lo \o <<"~">> \o hi \o <<"}">>
             ELSE IF has(s_minimum) THEN <<"{", ">", "=">> \o lo \o <<"}">>
             ELSE IF has(s_maximum) THEN <<"{", "<", "=">> \o hi \o <<"}">>
             ELSE <<>>)
       ELSE <<>>

\* C10: the range clause of format_type's result is decided by which
\* bounds the leaf has, whatever their values, 0 included: {min..max},
\* {min..}, {..max} or nothing for a string leaf, {min~max}, {>=min},
\* {<=max} or nothing for a number leaf, nothing for boolean and integer.
C10_RangeClauseByPresence ==
    pc = "Formatted" /\ fmt_result.t = "str" =>
        BraceClause(fmt_result.s) = RangeByPresence(InnermostSchema(fmt_schema))

(***************************************************************************)
(* The resolver applied to the trees of a bounded family: dicts nested up  *)
(* to MaxTreeDepth, callbacks at any level, callbacks that give a list, a  *)
(* sub-tree, a sub-tree with a callback, a callback, or raise.             *)
(***************************************************************************)
s_a == <<"a">>
s_b == <<"b">>
TreeLeaves ==
    {SchemaCallback(1), SchemaCallback(2), Str(s_A), List(<<SchemaCallback(1)>>)}

\* dicts with an optional value under "a" and an optional leaf under "b"
DictsOver(values) ==
    {MkDict({p \in {<<s_a, va>>, <<s_b, vb>>} : p[2].t # "null"}) :
        va \in values \cup {None}, vb \in TreeLeaves \cup {None}}

RECURSIVE TreesOfDepth(_)
TreesOfDepth(n) ==
    IF n = 0 THEN DictsOver(TreeLeaves)
    ELSE DictsOver(TreeLeaves \cup TreesOfDepth(n - 1))

Trees == TreesOfDepth(MaxTreeDepth)

TreeEnvs ==
    {e \in [{1, 2} -> {List(<<Str(s_A), Str(s_B)>>),
                       MkDict({<<s_a, Str(s_A)>>}),
                       MkDict({<<s_a, SchemaCallback(2)>>}),
                       Raise, Str(s_A), SchemaCallback(1)}] :
        /\ e[1].t \in {"list", "dict", "raise"}
        /\ e[2].t \in {"str", "cb"}}

InitResolver ==
    /\ PipelineIdle
    /\ pc = "Evaluate"
    /\ tree \in Trees
    /\ tree_env \in TreeEnvs
    /\ tree_result = None
    /\ tree_detected = None
    /\ tree_calls = NoCalls
    /\ callback_calls = NoCalls /\ current = 0 /\ parked = <<>>
    /\ fmt_schema = None /\ fmt_result = None
    /\ field_args = None /\ field_result = None
    /\ doc_schema = None /\ doc_result = None
    /\ helper = None /\ helper_context = 0 /\ helper_result = None

\* evaluate_schema_callbacks(schema): the evaluated copy, or the exception
\* of a callback.
EvaluateTree ==
    /\ pc = "Evaluate"
    /\ IF EvaluationRaises(tree, tree_env)
       THEN /\ pc' = "EvaluateRaised"
            /\ tree_calls' \in CallsUntilRaise(tree, tree_env)
            /\ UNCHANGED tree_result
       ELSE /\ tree_result' = evaluate_schema_callbacks(tree, tree_env)
            /\ tree_calls' = CallsOf(tree)
            /\ pc' = "Evaluated"
    /\ UNCHANGED <<config_vars, input_, resolved_schema, self_body, output,
                   exc, response, body_reads, handler_calls, trace,
                   format_vars, tree, tree_env, tree_detected, other_vars>>

\* detect_schemacallback(schema), before or after the evaluation
DetectTree ==
    /\ tree_detected = None
    /\ tree_detected' = Bool(detect_schemacallback(tree))
    /\ UNCHANGED <<pipeline_vars, format_vars, tree, tree_env, tree_result,
                   tree_calls, other_vars>>

NextResolver == EvaluateTree \/ DetectTree

SpecResolver == InitResolver /\ [][NextResolver]_vars

\* C9: detect_schemacallback finds no SchemaCallback in what
\* evaluate_schema_callbacks returned, for every tree and whatever the
\* callbacks return, a sub-tree included.
C9_ResolutionExhaustive ==
    pc = "Evaluated" => ~detect_schemacallback(tree_result)

(***************************************************************************)
\* A SchemaCallback or a SchemaHelper in the value, at any depth of its
\* dicts and lists.
RECURSIVE HasUnresolvedNode(_)
HasUnresolvedNode(value) ==
    CASE value.t \in {"cb", "helper"} -> TRUE
      [] value.t = "dict" ->
            \E k \in DOMAIN value.d : HasUnresolvedNode(value.d[k])
      [] value.t = "list" ->
            \E i \in 1..Len(value.l) : HasUnresolvedNode(value.l[i])
      [] OTHER -> FALSE

\* C20: whenever the input validation is performed, the schema given to
\* jsonschema.validate has no SchemaCallback and no SchemaHelper at any
\* depth, whatever the input schema of the operation is made of.
C20_ValidatedSchemaResolved ==
    InTrace("ValidateInput") => ~HasUnresolvedNode(resolved_schema)

(* The enum clause, the array suffix and the bare type name of             *)
(* format_type's result.                                                   *)
(***************************************************************************)
\* The text of a scalar enum value.
ScalarText(v) ==
    CASE v.t = "str" -> v.s
      [] v.t = "int" -> IntToText(v.n)
      [] v.t = "bool" -> IF v.b THEN s_true ELSE s_false
      [] OTHER -> s_null

\* Every value quoted, a comma and nothing else between two values.
RECURSIVE QuotedJoin(_)
QuotedJoin(values) ==
    IF values = <<>> THEN <<>>
    ELSE <<"\"">> \o ScalarText(Head(values)) \o <<"\"">>
         \o (IF Len(values) > 1 THEN <<",">> ELSE <<>>)
         \o QuotedJoin(Tail(values))

EndsWith(text, suffix) ==
    /\ Len(suffix) <= Len(text)
    /\ SubSeq(text, Len(text) - Len(suffix) + 1, Len(text)) = suffix

StartsWith(text, prefix) ==
    /\ Len(prefix) <= Len(text)
    /\ SubSeq(text, 1, Len(prefix)) = prefix

HasEnum(leaf) ==
    /\ s_enum \in DOMAIN leaf.d
    /\ leaf.d[s_enum].t = "list"
    /\ leaf.d[s_enum].l # <<>>

\* C11: when the innermost schema has a non-empty enum, format_type's
\* result ends with the range clause, if any, followed by "=" and every
\* enum value quoted, in declaration order, joined by commas with no space,
\* for every leaf kind and every scalar value.
C11_EnumClauseQuoted ==
    pc = "Formatted" /\ fmt_result.t = "str"
        /\ HasEnum(InnermostSchema(fmt_schema)) =>
        EndsWith(fmt_result.s,
                 BraceClause(fmt_result.s) \o <<"=">>
                 \o QuotedJoin(InnermostSchema(fmt_schema).d[s_enum].l))

\* The number of array levels around the innermost schema.
RECURSIVE ArrayDepth(_)
ArrayDepth(schema) ==
    IF s_items \in DOMAIN schema.d THEN 1 + ArrayDepth(schema.d[s_items])
    ELSE 0

RECURSIVE Brackets(_)
Brackets(n) == IF n = 0 THEN <<>> ELSE <<"[", "]">> \o Brackets(n - 1)

\* The type names with a capital.
KindName(kind) ==
    CASE kind = s_string -> <<"S", "t", "r", "i", "n", "g">>
      [] kind = s_number -> <<"N", "u", "m", "b", "e", "r">>
      [] kind = s_integer -> <<"I", "n", "t", "e", "g", "e", "r">>
      [] kind = s_boolean -> <<"B", "o", "o", "l", "e", "a", "n">>
      [] kind = s_object -> <<"O", "b", "j", "e", "c", "t">>
      [] kind = s_array -> <<"A", "r", "r", "a", "y">>
      [] OTHER -> kind

CountOf(text, c) == Cardinality({i \in 1..Len(text) : text[i] = c})

\* C12: for n nested arrays around a leaf, get_array_suffix gives n "[]"
\* tokens, and format_type's result is the capitalized kind of the
\* innermost schema followed by exactly n "[]" tokens, n being the depth
\* format_type descends through, union array types included.
C12_SuffixMatchesDepth ==
    pc = "Formatted" /\ fmt_result.t = "str" =>
        /\ get_array_suffix(fmt_schema) = Brackets(ArrayDepth(fmt_schema))
        /\ StartsWith(fmt_result.s,
                      KindName(LeafKind(InnermostSchema(fmt_schema)))
                      \o Brackets(ArrayDepth(fmt_schema)))
        /\ CountOf(fmt_result.s, "[") = ArrayDepth(fmt_schema)

HasNoLengthBound(schema) ==
    /\ s_minLength \notin DOMAIN schema.d
    /\ s_maxLength \notin DOMAIN schema.d

\* C13 as stated: for a schema with neither minLength nor maxLength,
\* format_type's result is exactly the capitalized type name.
C13_BareNameWithoutLengths ==
    pc = "Formatted" /\ fmt_result.t = "str"
        /\ HasNoLengthBound(fmt_schema) =>
        fmt_result.s = KindName(LeafKind(InnermostSchema(fmt_schema)))

\* C13: for a schema that is not an array, with no enum, with neither
\* minLength nor maxLength and neither minimum nor maximum, format_type's
\* result is exactly the capitalized type name, with no {} clause.
C13_BareNameOfPlainLeaf ==
    pc = "Formatted"
        /\ DOMAIN fmt_schema.d \cap {s_items, s_enum, s_minLength, s_maxLength,
                                     s_minimum, s_maximum} = {} =>
        /\ fmt_result.t = "str"
        /\ fmt_result.s = KindName(LeafKind(fmt_schema))

C13_Witness ==
    /\ pc = "Formatted"
    /\ fmt_schema = LeafSchema(s_number, TRUE, None, None, None)
    /\ fmt_result = Str(<<"N", "u", "m", "b", "e", "r">>)

(***************************************************************************)
(* apidocjs/output.py: format_field_name.                                  *)
(***************************************************************************)
s_default == <<"d", "e", "f", "a", "u", "l", "t">>
s_news == <<"n", "e", "w", "s">>
s_news_published == s_news \o <<".">> \o s_published

\* Python's order of two str: by code point, a proper prefix first.
RECURSIVE StrLess(_, _)
StrLess(a, b) ==
    IF b = <<>> THEN FALSE
    ELSE IF a = <<>> THEN TRUE
    ELSE IF a[1] = b[1] THEN StrLess(Tail(a), Tail(b))
    ELSE Ord(a[1]) < Ord(b[1])

\* sorted(keys)
RECURSIVE Sorted(_)
Sorted(keys) ==
    IF keys = {} THEN <<>>
    ELSE LET least == CHOOSE k \in keys :
                          \A other \in keys \ {k} : StrLess(k, other)
         IN <<least>> \o Sorted(keys \ {least})

\* json.dumps(value, separators=(',', ':'), sort_keys=True)
RECURSIVE dumps_compact(_)
RECURSIVE DumpItemsCompact(_, _)
RECURSIVE DumpMembersCompact(_, _, _)
dumps_compact(v) ==
    CASE v.t = "null" -> s_null
      [] v.t = "bool" -> IF v.b THEN s_true ELSE s_false
      [] v.t = "int" -> IntToText(v.n)
      [] v.t = "str" -> <<"\"">> \o v.s \o <<"\"">>
      [] v.t = "list" -> <<"[">> \o DumpItemsCompact(v.l, 1) \o <<"]">>
      [] v.t = "dict" ->
            <<"{">> \o DumpMembersCompact(v.d, Sorted(DOMAIN v.d), 1)
            \o <<"}">>
DumpItemsCompact(l, i) ==
    IF i > Len(l) THEN <<>>
    ELSE IF i = Len(l) THEN dumps_compact(l[i])
    ELSE dumps_compact(l[i]) \o <<",">> \o DumpItemsCompact(l, i + 1)
DumpMembersCompact(d, keys, i) ==
    IF i > Len(keys) THEN <<>>
    ELSE <<"\"">> \o keys[i] \o <<"\"", ":">> \o dumps_compact(d[keys[i]])
         \o (IF i = Len(keys) THEN <<>> ELSE <<",">>)
         \o DumpMembersCompact(d, keys, i + 1)

\* `key in required` for a list of names
InList(key, required) ==
    \E i \in 1..Len(required.l) :
        required.l[i].t = "str" /\ required.l[i].s = key

\* membership in required looked up by the dotted name
format_field_name_by_path(schema, original_key, field_name0, required) ==
    LET field_name == IF Falsy(field_name0) THEN original_key
                      ELSE field_name0.s
        has_default == s_default \in DOMAIN schema.d
        not_required == ~InList(field_name, required)
    IN IF not_required /\ has_default
       THEN <<"[">> \o field_name \o <<"=">>
            \o dumps_compact(schema.d[s_default]) \o <<"]">>
       ELSE IF not_required THEN <<"[">> \o field_name \o <<"]">>
       ELSE field_name

\* format_field_name(schema, original_key, field_name=None, required=[])
format_field_name(schema, original_key, field_name0, required) ==
    LET field_name == IF Falsy(field_name0) THEN original_key
                      ELSE field_name0.s
        has_default == s_default \in DOMAIN schema.d
        not_required == ~InList(original_key, required)
    IN IF not_required /\ has_default
       THEN <<"[">> \o field_name \o <<"=">>
            \o dumps_compact(schema.d[s_default]) \o <<"]">>
       ELSE IF not_required THEN <<"[">> \o field_name \o <<"]">>
       ELSE field_name

(***************************************************************************)
(* format_field_name applied to a bounded family: a default of every JSON  *)
(* kind or none, the key alone or under a dotted name, required lists      *)
(* with the key, with the dotted name, with another name, or empty.        *)
(***************************************************************************)
Unsupplied == [t |-> "unsupplied"]
FieldDefaults ==
    {Unsupplied, None, Bool(TRUE), Bool(FALSE), Num(0), Num(MaxBoundValue),
     Str(s_A), List(<<Num(1), Str(s_B)>>),
     MkDict({<<s_b, Num(1)>>, <<s_a, List(<<Num(1), Num(2)>>)>>})}
FieldSchemas ==
    {IF d = Unsupplied THEN MkDict({<<s_type, Str(s_boolean)>>})
     ELSE Dict((s_type :> Str(s_boolean)) @@ (s_default :> d)) :
        d \in FieldDefaults}
FieldKeys == {s_published, s_news}
FieldPaths == {None, Str(s_news_published)}
RequiredLists ==
    {List(<<>>), List(<<Str(s_published)>>), List(<<Str(s_news_published)>>),
     List(<<Str(s_news), Str(s_published)>>), List(<<Str(s_name)>>)}

InitFieldName ==
    /\ PipelineIdle
    /\ pc = "FormatFieldName"
    /\ field_args \in [schema : FieldSchemas, key : FieldKeys,
                       path : FieldPaths, required : RequiredLists]
    /\ field_result = None
    /\ fmt_schema = None /\ fmt_result = None
    /\ tree = None /\ tree_env = <<>> /\ tree_result = None
    /\ tree_detected = None /\ tree_calls = <<>>
    /\ callback_calls = NoCalls /\ current = 0 /\ parked = <<>>
    /\ doc_schema = None /\ doc_result = None
    /\ helper = None /\ helper_context = 0 /\ helper_result = None

FormatFieldName ==
    /\ pc = "FormatFieldName"
    /\ field_result' = Str(format_field_name(field_args.schema, field_args.key,
                                             field_args.path,
                                             field_args.required))
    /\ pc' = "FieldNameFormatted"
    /\ UNCHANGED <<config_vars, input_, resolved_schema, self_body, output,
                   exc, response, body_reads, handler_calls, trace,
                   format_vars, resolver_vars, field_args, doc_schema,
                   doc_result, helper_vars, sched_vars, callback_calls>>

NextFieldName == FormatFieldName

SpecFieldName == InitFieldName /\ [][NextFieldName]_vars

\* The name the field is shown under: the dotted name when one is given.
PathKey(args) == IF args.path.t = "null" THEN args.key ELSE args.path.s

KeyIsRequired(args) ==
    \E i \in 1..Len(args.required.l) : args.required.l[i] = Str(args.key)

\* C14: format_field_name gives "[pathKey=<d>]" when the key is not in
\* required and the schema has a default, <d> being the compact key-sorted
\* JSON encoding of the default, "[pathKey]" when the key is not in
\* required and there is no default, and pathKey alone when the key is in
\* required; membership is tested on the bare key, and pathKey is the key
\* when no path is supplied.
C14_FieldName ==
    pc = "FieldNameFormatted" =>
        LET name == PathKey(field_args)
            schema == field_args.schema
        IN field_result =
              IF KeyIsRequired(field_args) THEN Str(name)
              ELSE IF s_default \in DOMAIN schema.d
              THEN Str(<<"[">> \o name \o <<"=">>
                       \o dumps_compact(schema.d[s_default]) \o <<"]">>)
              ELSE Str(<<"[">> \o name \o <<"]">>)

\* a dotted name that is itself in required, the bare key not: bracketed,
\* with the default as compact JSON with its keys in order
C14_Witness ==
    /\ pc = "FieldNameFormatted"
    /\ field_args.key = s_published
    /\ field_args.path = Str(s_news_published)
    /\ field_args.required = List(<<Str(s_news_published)>>)
    /\ field_args.schema.d[s_type] = Str(s_boolean)
    /\ s_default \in DOMAIN field_args.schema.d
    /\ field_args.schema.d[s_default].t = "dict"
    /\ field_result =
          Str(<<"[">> \o s_news_published
              \o <<"=", "{", "\"", "a", "\"", ":", "[", "1", ",", "2", "]",
                   ",", "\"", "b", "\"", ":", "1", "}", "]">>)

\* the bare key in required: the dotted name without brackets, default or not
C14_WitnessRequired ==
    /\ pc = "FieldNameFormatted"
    /\ field_args.key = s_published
    /\ field_args.path = Str(s_news_published)
    /\ field_args.required = List(<<Str(s_published)>>)
    /\ s_default \in DOMAIN field_args.schema.d
    /\ field_result = Str(s_news_published)

(***************************************************************************)
(* apidocjs/output.py: Notation, get_schema_fields, get_schema_nested,     *)
(* get_schema_notation and get_output_schema_doc.                          *)
(***************************************************************************)
s_title == <<"t", "i", "t", "l", "e">>
s_description ==
    <<"d", "e", "s", "c", "r", "i", "p", "t", "i", "o", "n">>
s_apiSuccess == <<"a", "p", "i", "S", "u", "c", "c", "e", "s", "s">>

Exception == [t |-> "raise", cls |-> "Exception"]

\* Notation(name, *parts)
Notation(name, parts) == [t |-> "notation", name |-> name, parts |-> parts]

\* value == 'name'
IsName(value, name) == value.t = "str" /\ value.s = name

\* ".".join(keys)
RECURSIVE JoinDots(_)
JoinDots(keys) ==
    IF keys = <<>> THEN <<>>
    ELSE IF Len(keys) = 1 THEN keys[1]
    ELSE keys[1] \o <<".">> \o JoinDots(Tail(keys))

\* get_schema_fields: the properties of the object under the arrays
RECURSIVE get_schema_fields(_)
get_schema_fields(schema) ==
    LET stype == Get(schema, s_type)
        sitems == Get(schema, s_items)
    IN IF IsName(stype, s_array)
       THEN (IF ~Falsy(sitems) THEN get_schema_fields(sitems)
             ELSE Dict(EmptyDict))
       ELSE IF IsName(stype, s_object)
       THEN (IF s_properties \in DOMAIN schema.d THEN schema.d[s_properties]
             ELSE Dict(EmptyDict))
       ELSE Dict(EmptyDict)

\* the schema as it is
get_schema_nested_shallow(schema) == schema

\* get_schema_nested: the schema under the arrays whose items are objects
\* or arrays
RECURSIVE get_schema_nested(_)
get_schema_nested(schema) ==
    LET stype == Get(schema, s_type)
        items == IF s_items \in DOMAIN schema.d THEN schema.d[s_items]
                 ELSE Dict(EmptyDict)
        itype == Get(items, s_type)
        properties == IF s_properties \in DOMAIN schema.d
                      THEN schema.d[s_properties] ELSE Dict(EmptyDict)
        ptype == Get(properties, s_type)
    IN IF IsName(stype, s_array)
       THEN (IF IsName(itype, s_object) \/ IsName(itype, s_array)
             THEN get_schema_nested(items) ELSE schema)
       ELSE IF IsName(stype, s_object)
       THEN (IF IsName(ptype, s_object) \/ IsName(ptype, s_array)
             THEN get_schema_nested(properties) ELSE schema)
       ELSE schema

\* the name of the field without the names above it
get_schema_notation_bare_key(k, schema, param_name, preffix, required) ==
    LET stype == Get(schema, s_type)
        description0 == Get(schema, s_description)
        description ==
            IF IsName(stype, s_object) /\ description0.t = "null"
            THEN (IF s_title \in DOMAIN schema.d THEN schema.d[s_title]
                  ELSE Str(<<>>))
            ELSE description0
        formatted == format_type(schema, None)
    IN IF s_type \notin DOMAIN schema.d THEN Exception
       ELSE IF formatted.t = "raise" THEN formatted
       ELSE Notation(param_name,
                     << <<"{">> \o formatted.s \o <<"}">>,
                        format_field_name(schema, k, Str(k), required),
                        IF Falsy(description) THEN <<>> ELSE description.s >>)

\* get_schema_notation: the Notation of one field, or the exception raised
\* for a schema without type (AttributeError when format_type meets one
\* under an array)
get_schema_notation(k, schema, param_name, preffix, required) ==
    LET stype == Get(schema, s_type)
        description0 == Get(schema, s_description)
        description ==
            IF IsName(stype, s_object) /\ description0.t = "null"
            THEN (IF s_title \in DOMAIN schema.d THEN schema.d[s_title]
                  ELSE Str(<<>>))
            ELSE description0
        key == IF preffix # <<>> THEN JoinDots(Append(preffix, k)) ELSE k
        formatted == format_type(schema, None)
    IN IF s_type \notin DOMAIN schema.d THEN Exception
       ELSE IF formatted.t = "raise" THEN formatted
       ELSE Notation(param_name,
                     << <<"{">> \o formatted.s \o <<"}">>,
                        format_field_name(schema, k, Str(key), required),
                        IF Falsy(description) THEN <<>> ELSE description.s >>)

\* get_output_schema_doc: the list of Notations, or the exception that
\* left it. SchemaParts is the loop over sorted(fields.items()) from its
\* i-th pair on.
RECURSIVE get_output_schema_doc(_, _, _)
RECURSIVE SchemaParts(_, _, _, _, _, _)
get_output_schema_doc(schema0, param_name, preffix) ==
    LET ostype == Get(schema0, s_type)
        schema == get_schema_nested(schema0)
        required == IF s_required \in DOMAIN schema.d
                    THEN schema.d[s_required] ELSE List(<<>>)
        fields == get_schema_fields(schema)
    IN IF ~(IsName(ostype, s_object) \/ IsName(ostype, s_array))
       THEN List(<<>>)
       ELSE SchemaParts(fields, Sorted(DOMAIN fields.d), 1, param_name,
                        preffix, required)
SchemaParts(fields, keys, i, param_name, preffix, required) ==
    IF i > Len(keys) THEN List(<<>>)
    ELSE LET k == keys[i]
             schema == fields.d[k]
             stype == Get(schema, s_type)
             part == get_schema_notation(k, schema, param_name, preffix,
                                         required)
             nested ==
                 IF \/ IsName(stype, s_object)
                       /\ s_properties \in DOMAIN schema.d
                    \/ IsName(stype, s_array) /\ s_items \in DOMAIN schema.d
                 THEN get_output_schema_doc(schema, param_name,
                                            Append(preffix, k))
                 ELSE List(<<>>)
             rest == SchemaParts(fields, keys, i + 1, param_name, preffix,
                                 required)
         IN IF part.t = "raise" THEN part
            ELSE IF nested.t = "raise" THEN nested
            ELSE IF rest.t = "raise" THEN rest
            ELSE List(<<part>> \o nested.l \o rest.l)

(***************************************************************************)
(* get_output_schema_doc applied to a bounded family of schemas: objects   *)
(* with properties a and b, required lists at every level, object fields,  *)
(* array fields up to MaxArrayDepth deep around an object or a leaf, an    *)
(* object three levels deep, schemas without type as a property, as the    *)
(* items of an array and as the root, and roots that are leaves.           *)
(***************************************************************************)
StringLeaf == MkDict({<<s_type, Str(s_string)>>})
NullableLeaf == MkDict({<<s_type, List(<<Str(s_string), Str(s_null)>>)>>})
IntegerLeaf == MkDict({<<s_type, Str(s_integer)>>, <<s_default, Num(1)>>})
Typeless == MkDict({<<s_title, Str(s_A)>>})

OptionalRequired == {None, List(<<Str(s_a)>>), List(<<Str(s_b)>>)}

\* an object schema; a property, the title or the required list that is
\* None is left out
ObjectOf(a, b, title, required) ==
    MkDict({p \in {<<s_type, Str(s_object)>>,
                   <<s_properties,
                     MkDict({q \in {<<s_a, a>>, <<s_b, b>>} :
                                q[2].t # "null"})>>,
                   <<s_title, title>>,
                   <<s_required, required>>} : p[2].t # "null"})

InnerObjects ==
    {ObjectOf(a, b, None, required) :
        a \in {None, StringLeaf, Typeless},
        b \in {None, NullableLeaf, IntegerLeaf},
        required \in OptionalRequired}

\* depth arrays around the element, each with the required list given
RECURSIVE ArrayAround(_, _, _)
ArrayAround(element, depth, required) ==
    IF depth = 0 THEN element
    ELSE MkDict({p \in {<<s_type, Str(s_array)>>,
                        <<s_items, ArrayAround(element, depth - 1, required)>>,
                        <<s_required, required>>} : p[2].t # "null"})

DeepObject ==
    ObjectOf(ObjectOf(StringLeaf, StringLeaf, None, List(<<Str(s_b)>>)),
             StringLeaf, Str(s_B), List(<<Str(s_a)>>))

DocFields ==
    {StringLeaf, IntegerLeaf, Typeless, DeepObject}
    \cup InnerObjects
    \cup {ArrayAround(element, depth, required) :
            element \in InnerObjects \cup {StringLeaf, Typeless},
            depth \in 1..MaxArrayDepth,
            required \in {None, List(<<Str(s_b)>>)}}

RootObjects ==
    {ObjectOf(a, b, None, required) :
        a \in DocFields, b \in {None, StringLeaf},
        required \in OptionalRequired}

\* the schema without its type
WithoutType(schema) ==
    Dict([k \in DOMAIN schema.d \ {s_type} |-> schema.d[k]])

DocSchemas ==
    RootObjects
    \cup {ArrayAround(root, 1, None) : root \in RootObjects}
    \cup {WithoutType(root) : root \in RootObjects}
    \cup {StringLeaf, ArrayAround(StringLeaf, 1, None),
          ArrayAround(Typeless, 1, None)}

InitDoc ==
    /\ PipelineIdle
    /\ pc = "Compile"
    /\ doc_schema \in DocSchemas
    /\ doc_result = None
    /\ fmt_schema = None /\ fmt_result = None
    /\ tree = None /\ tree_env = <<>> /\ tree_result = None
    /\ tree_detected = None /\ tree_calls = <<>>
    /\ callback_calls = NoCalls /\ current = 0 /\ parked = <<>>
    /\ field_args = None /\ field_result = None
    /\ helper = None /\ helper_context = 0 /\ helper_result = None

\* get_output_schema_doc(output_schema)
CompileDoc ==
    /\ pc = "Compile"
    /\ doc_result' = get_output_schema_doc(doc_schema, s_apiSuccess, <<>>)
    /\ pc' = "Compiled"
    /\ UNCHANGED <<config_vars, input_, resolved_schema, self_body, output,
                   exc, response, body_reads, handler_calls, trace,
                   format_vars, resolver_vars, field_args, field_result,
                   doc_schema, helper_vars, sched_vars, callback_calls>>

NextDoc == CompileDoc

SpecDoc == InitDoc /\ [][NextDoc]_vars

\* The schema under the arrays around it.
RECURSIVE ElementOf(_)
ElementOf(schema) ==
    IF IsName(Get(schema, s_type), s_array) /\ s_items \in DOMAIN schema.d
    THEN ElementOf(schema.d[s_items]) ELSE schema

HasProperties(schema) ==
    /\ IsName(Get(schema, s_type), s_object)
    /\ s_properties \in DOMAIN schema.d

\* The fields to document, as lists of names from the root: the properties
\* of the object (under its arrays) in ascending order, each followed at
\* once by the fields of its own schema.
RECURSIVE DocumentedPaths(_, _)
RECURSIVE DocumentedPathsFrom(_, _, _, _)
DocumentedPaths(schema, prefix) ==
    IF HasProperties(ElementOf(schema))
    THEN DocumentedPathsFrom(ElementOf(schema).d[s_properties],
                        Sorted(DOMAIN ElementOf(schema).d[s_properties].d),
                        1, prefix)
    ELSE <<>>
DocumentedPathsFrom(properties, keys, i, prefix) ==
    IF i > Len(keys) THEN <<>>
    ELSE << Append(prefix, keys[i]) >>
         \o DocumentedPaths(properties.d[keys[i]], Append(prefix, keys[i]))
         \o DocumentedPathsFrom(properties, keys, i + 1, prefix)

\* The name in the field text of a Notation: without the brackets and the
\* default.
NameInField(text) ==
    LET inside == IF text # <<>> /\ text[1] = "["
                  THEN SubSeq(text, 2, Len(text) - 1) ELSE text
        equals == {i \in 1..Len(inside) : inside[i] = "="}
    IN IF equals = {} THEN inside
       ELSE SubSeq(inside, 1,
                   (CHOOSE i \in equals : \A j \in equals : i <= j) - 1)

IsBracketed(text) ==
    text # <<>> /\ text[1] = "[" /\ text[Len(text)] = "]"

RootIsObjectOrArray(schema) ==
    \/ IsName(Get(schema, s_type), s_object)
    \/ IsName(Get(schema, s_type), s_array)

\* C15: what get_output_schema_doc returns for an object or array schema
\* is one Notation per property of every level, a level in ascending order
\* of the names, the Notations of the properties under a field right after
\* the Notation of the field, each named by the names from the root joined
\* with "."; for a root that is neither object nor array it is empty.
C15_DepthFirstSorted ==
    pc = "Compiled" /\ doc_result.t = "list" =>
        LET paths == DocumentedPaths(doc_schema, <<>>) IN
        /\ RootIsObjectOrArray(doc_schema) =>
              /\ Len(doc_result.l) = Len(paths)
              /\ \A i \in 1..Len(paths) :
                    /\ doc_result.l[i].name = s_apiSuccess
                    /\ NameInField(doc_result.l[i].parts[2])
                          = JoinDots(paths[i])
        /\ ~RootIsObjectOrArray(doc_schema) => doc_result.l = <<>>

\* an array field over an object and a sibling after it: the field, its
\* two properties, then the sibling
C15_Witness ==
    /\ pc = "Compiled"
    /\ doc_result.t = "list"
    /\ Len(doc_result.l) = 4
    /\ HasProperties(doc_schema)
    /\ IsName(Get(doc_schema.d[s_properties].d[s_a], s_type), s_array)
    /\ NameInField(doc_result.l[1].parts[2]) = s_a
    /\ NameInField(doc_result.l[2].parts[2]) = <<"a", ".", "a">>
    /\ NameInField(doc_result.l[3].parts[2]) = <<"a", ".", "b">>
    /\ NameInField(doc_result.l[4].parts[2]) = s_b

\* a root that is a leaf: nothing
C15_WitnessLeafRoot ==
    pc = "Compiled" /\ doc_schema = StringLeaf /\ doc_result = List(<<>>)

\* The object a path of names leads to, arrays stepped through.
RECURSIVE ObjectAt(_, _)
ObjectAt(schema, path) ==
    IF path = <<>> THEN ElementOf(schema)
    ELSE ObjectAt(ElementOf(schema).d[s_properties].d[Head(path)],
                  Tail(path))

RequiredOf(object) ==
    IF s_required \in DOMAIN object.d THEN object.d[s_required]
    ELSE List(<<>>)

ButLast(path) == SubSeq(path, 1, Len(path) - 1)

\* The array schemas on the way to the fields documented.
ArrayFieldsOf(schema) ==
    LET paths == DocumentedPaths(schema, <<>>) IN
    {f \in {ObjectAt(schema, ButLast(paths[i]))
                .d[s_properties].d[paths[i][Len(paths[i])]] :
            i \in 1..Len(paths)} :
        IsName(Get(f, s_type), s_array) /\ HasProperties(ElementOf(f))}

\* C16: a property documented under an array field, however deep the
\* arrays, is bracketed exactly when the required list of the innermost
\* object, the one that has the property, does not name it; the required
\* lists of the parent object and of the arrays play no part, and
\* get_schema_nested and get_schema_fields reach that same object.
C16_RequiredOfInnermostObject ==
    pc = "Compiled" /\ doc_result.t = "list"
        /\ RootIsObjectOrArray(doc_schema) =>
        LET paths == DocumentedPaths(doc_schema, <<>>) IN
        /\ \A i \in 1..Len(paths) :
              IsBracketed(doc_result.l[i].parts[2]) =
                 ~InList(paths[i][Len(paths[i])],
                         RequiredOf(ObjectAt(doc_schema, ButLast(paths[i]))))
        /\ \A f \in ArrayFieldsOf(doc_schema) :
              /\ get_schema_nested(f) = ElementOf(f)
              /\ get_schema_fields(f) = ElementOf(f).d[s_properties]

\* two arrays around an object that requires a: a.a is not bracketed
\* although the arrays and the parent object require b, and a.b is
C16_Witness ==
    /\ pc = "Compiled"
    /\ doc_result.t = "list"
    /\ HasProperties(doc_schema)
    /\ doc_schema.d[s_properties].d[s_a] =
          ArrayAround(ObjectOf(StringLeaf, IntegerLeaf, None,
                               List(<<Str(s_a)>>)),
                      2, List(<<Str(s_b)>>))
    /\ RequiredOf(doc_schema) = List(<<Str(s_b)>>)
    /\ doc_result.l[1].parts[2] = <<"[", "a", "]">>
    /\ doc_result.l[2].parts[2] = <<"a", ".", "a">>
    /\ doc_result.l[3].parts[2] = <<"[", "a", ".", "b", "=", "1", "]">>

\* A schema without type among those the compiler is given: the root, the
\* properties at any depth, the items of the arrays.
RECURSIVE HasTypeless(_)
HasTypeless(schema) ==
    \/ s_type \notin DOMAIN schema.d
    \/ /\ s_items \in DOMAIN schema.d
       /\ HasTypeless(schema.d[s_items])
    \/ /\ s_properties \in DOMAIN schema.d
       /\ \E k \in DOMAIN schema.d[s_properties].d :
             HasTypeless(schema.d[s_properties].d[k])

\* C17: when a schema without type reaches get_output_schema_doc, as a
\* property at any depth, as the items of an array or as the root, an
\* exception is raised: no list of Notations is returned.
C17_TypelessRaises ==
    pc = "Compiled" /\ HasTypeless(doc_schema) => doc_result.t = "raise"

(***************************************************************************)
(* schema.py: SchemaHelper.as_dict and schemahelpers_as_dict.              *)
(***************************************************************************)
\* What a method returns when called with the requesthandler.
RECURSIVE ReturnedFor(_, _)
ReturnedFor(returns, requesthandler) ==
    CASE returns.t = "context" -> Num(requesthandler)
      [] returns.t = "dict" ->
            Dict([k \in DOMAIN returns.d |->
                    ReturnedFor(returns.d[k], requesthandler)])
      [] returns.t = "list" ->
            List([i \in 1..Len(returns.l) |->
                    ReturnedFor(returns.l[i], requesthandler)])
      [] OTHER -> returns

\* attrname.startswith("get_") and attrname.endswith("_key")
IsKeyMethodName(attrname) ==
    StartsWith(attrname, s_get_) /\ EndsWith(attrname, s__key)

\* attrname[4:-4]
KeyOfName(attrname) == SubSeq(attrname, 5, Len(attrname) - 4)

RECURSIVE as_dict(_, _)
RECURSIVE schemahelpers_as_dict(_, _)
RECURSIVE schemahelpers_as_dict_top(_, _)

\* only the values of the dict itself are looked at
schemahelpers_as_dict_top(schema, requesthandler) ==
    Dict([k \in DOMAIN schema.d |->
            LET v == schema.d[k] IN
            IF v.t = "helper" THEN as_dict(v, requesthandler)
            ELSE v])

\* schemahelpers_as_dict: a new dict, key by key; a SchemaHelper value is
\* replaced by its as_dict, a dict value by its own copy, any other value
\* is kept.
schemahelpers_as_dict(schema, requesthandler) ==
    Dict([k \in DOMAIN schema.d |->
            LET v == schema.d[k] IN
            IF v.t = "helper" THEN as_dict(v, requesthandler)
            ELSE IF v.t = "dict" THEN schemahelpers_as_dict(v, requesthandler)
            ELSE v])

\* SchemaHelper.as_dict: from an empty dict, an entry for every callable
\* attribute named get_<key>_key.
as_dict(self, requesthandler) ==
    LET names == {attrname \in DOMAIN self.attrs :
                     /\ IsKeyMethodName(attrname)
                     /\ self.attrs[attrname].callable}
        d == [k \in {KeyOfName(attrname) : attrname \in names} |->
                LET method ==
                        self.attrs[CHOOSE attrname \in names :
                                       KeyOfName(attrname) = k]
                    v == ReturnedFor(method.returns, requesthandler)
                IN IF v.t = "helper" THEN as_dict(v, requesthandler) ELSE v]
    IN schemahelpers_as_dict(Dict(d), requesthandler)

(***************************************************************************)
(* as_dict applied to a bounded family of helpers: with and without stored *)
(* contents, with a method, an attribute that is not callable and a method *)
(* whose name does not match, helpers returned by a method, inside a       *)
(* returned dict, inside a dict in a returned dict, and inside a list.     *)
(***************************************************************************)
StoredContents ==
    {Dict(EmptyDict), MkDict({<<s_title, Str(s_B)>>}),
     MkDict({<<s_title, Str(s_B)>>, <<s_enum, List(<<Str(s_B)>>)>>})}

\* helpers like MySchema of the tests
SimpleHelpers ==
    {SchemaHelper(data,
        [attrname \in ({MethodName(s_enum), s_get_ \o s_title}
                       \cup IF withType THEN {MethodName(s_type)} ELSE {}) |->
            IF attrname = MethodName(s_enum) THEN Method(enum)
            ELSE IF attrname = MethodName(s_type)
            THEN Attribute(Str(s_object))
            ELSE Method(Str(s_A))]) :
        data \in StoredContents,
        enum \in {List(<<Str(s_A), Str(s_B)>>), FromContext,
                  List(<<FromContext>>)},
        withType \in BOOLEAN}

\* what get_properties_key gives with a helper somewhere in it
PropertiesWith(inner) ==
    {inner,
     MkDict({<<s_myschema, inner>>,
             <<s_name, MkDict({<<s_type, Str(s_integer)>>})>>}),
     MkDict({<<s_a, MkDict({<<s_myschema, inner>>, <<s_b, FromContext>>})>>}),
     List(<<inner>>)}

RECURSIVE HelpersOfDepth(_)
HelpersOfDepth(n) ==
    IF n = 0 THEN SimpleHelpers
    ELSE {SchemaHelper(data,
            [attrname \in {MethodName(s_properties), MethodName(s_title)} |->
                IF attrname = MethodName(s_properties) THEN Method(properties)
                ELSE Method(FromContext)]) :
            data \in {Dict(EmptyDict), MkDict({<<s_name, Str(s_B)>>})},
            properties \in UNION {PropertiesWith(inner) :
                                    inner \in HelpersOfDepth(n - 1)}}

MaxHelperDepth == 1
MaxRequests == 2        \* requests to one operation at a time
Helpers == UNION {HelpersOfDepth(n) : n \in 0..MaxHelperDepth}
Contexts == {1, 2}

InitHelper ==
    /\ PipelineIdle
    /\ pc = "AsDict"
    /\ helper \in Helpers
    /\ helper_context \in Contexts
    /\ helper_result = None
    /\ fmt_schema = None /\ fmt_result = None
    /\ tree = None /\ tree_env = <<>> /\ tree_result = None
    /\ tree_detected = None /\ tree_calls = <<>>
    /\ callback_calls = NoCalls /\ current = 0 /\ parked = <<>>
    /\ field_args = None /\ field_result = None
    /\ doc_schema = None /\ doc_result = None

\* helper.as_dict(requesthandler)
AsDict ==
    /\ pc = "AsDict"
    /\ helper_result' = as_dict(helper, helper_context)
    /\ pc' = "AsDictReturned"
    /\ UNCHANGED <<config_vars, input_, resolved_schema, self_body, output,
                   exc, response, body_reads, handler_calls, trace,
                   format_vars, resolver_vars, doc_vars, helper,
                   helper_context, sched_vars, callback_calls>>

NextHelper == AsDict

SpecHelper == InitHelper /\ [][NextHelper]_vars

\* The keys of the callable get_<key>_key attributes.
MethodKeys(self) ==
    {k \in {KeyOfName(attrname) : attrname \in DOMAIN self.attrs} :
        /\ MethodName(k) \in DOMAIN self.attrs
        /\ self.attrs[MethodName(k)].callable}

\* A SchemaHelper in the dict or at any depth of its nested dicts.
RECURSIVE HelperInDicts(_)
HelperInDicts(dict) ==
    \E k \in DOMAIN dict.d :
        \/ dict.d[k].t = "helper"
        \/ dict.d[k].t = "dict" /\ HelperInDicts(dict.d[k])

\* The numbers in a value, lists and dicts looked into.
RECURSIVE NumbersIn(_)
NumbersIn(value) ==
    CASE value.t = "int" -> {value.n}
      [] value.t = "dict" ->
            UNION {NumbersIn(value.d[k]) : k \in DOMAIN value.d}
      [] value.t = "list" ->
            UNION {NumbersIn(value.l[i]) : i \in 1..Len(value.l)}
      [] OTHER -> {}

\* C18: as_dict(context) returns a dict with exactly one entry for every
\* callable get_<key>_key attribute of the helper, every method (of the
\* helper and of the helpers under it) called with that same context, and
\* with no SchemaHelper left as a value or at any depth of nested dicts.
C18_HelpersResolved ==
    pc = "AsDictReturned" =>
        /\ helper_result.t = "dict"
        /\ DOMAIN helper_result.d = MethodKeys(helper)
        /\ ~HelperInDicts(helper_result)
        /\ NumbersIn(helper_result) \subseteq {helper_context}
        /\ \A k \in MethodKeys(helper) :
              LET returns == helper.attrs[MethodName(k)].returns IN
              returns.t \in {"str", "context"} =>
                 helper_result.d[k] = ReturnedFor(returns, helper_context)

\* a helper two dicts down in what get_properties_key returned, resolved
\* with the context of the call
C18_Witness ==
    /\ pc = "AsDictReturned"
    /\ helper_context = 2
    /\ DOMAIN helper_result.d = {s_properties, s_title}
    /\ helper_result.d[s_properties].t = "dict"
    /\ s_a \in DOMAIN helper_result.d[s_properties].d
    /\ helper_result.d[s_properties].d[s_a] =
          MkDict({<<s_myschema, MkDict({<<s_enum, Num(2)>>})>>,
                  <<s_b, Num(2)>>})

\* C19: what as_dict returns is the helper's own contents updated with the
\* results of the methods: every key stored in the helper that has no
\* get_<key>_key method is in the result with its stored value.
C19_StoredContentsKept ==
    pc = "AsDictReturned" =>
        \A k \in DOMAIN helper.data.d \ MethodKeys(helper) :
            /\ k \in DOMAIN helper_result.d
            /\ helper_result.d[k] = helper.data.d[k]

\* The values of the dict and of its nested dicts, at any depth.
RECURSIVE ValuesInDicts(_)
ValuesInDicts(dict) ==
    {dict.d[k] : k \in DOMAIN dict.d}
    \cup UNION {ValuesInDicts(dict.d[k]) :
                  k \in {key \in DOMAIN dict.d : dict.d[key].t = "dict"}}

\* C21: detect_schemacallback returns true exactly when a SchemaCallback is
\* a value at some depth of the nested dicts of the schema (properties,
\* items); it calls no callback and changes nothing; and when it returns
\* false, evaluate_schema_callbacks calls no callback and returns a tree
\* equal to the one it was given.
C21_DetectAgreesWithEvaluate ==
    /\ [](tree_detected.t = "bool" =>
            /\ tree_detected.b = (\E v \in ValuesInDicts(tree) : v.t = "cb")
            /\ pc = "Evaluate" => tree_calls = NoCalls /\ tree_result = None
            /\ ~tree_detected.b /\ pc # "Evaluate" =>
                  /\ pc = "Evaluated"
                  /\ tree_calls = NoCalls
                  /\ tree_result = tree)
    /\ [][tree' = tree /\ tree_env' = tree_env]_vars

\* a tree of nested dicts with no callback in them: not detected, and
\* evaluated to itself
C21_Witness ==
    /\ pc = "Evaluated"
    /\ tree_detected = Bool(FALSE)
    /\ \E k \in DOMAIN tree.d : tree.d[k].t = "dict"
    /\ tree_result = tree

\* a callback two dicts down: detected
C21_WitnessNested ==
    /\ tree_detected = Bool(TRUE)
    /\ \A k \in DOMAIN tree.d : tree.d[k].t # "cb"
    /\ \E k \in DOMAIN tree.d :
          /\ tree.d[k].t = "dict"
          /\ \A j \in DOMAIN tree.d[k].d : tree.d[k].d[j].t # "cb"


(***************************************************************************)
(* Several requests to one operation.  _wrapper is a tornado coroutine:    *)
(* one invocation runs at a time, from a `yield` (lines 199 and 219) or    *)
(* its start to the next `yield` or its end; at a `yield` it goes on at    *)
(* once when the yielded future is done and leaves the thread to the other *)
(* requests when it is not.  The locals of the invocation that runs are    *)
(* the variables of the pipeline; those of the others are kept in parked.  *)
(***************************************************************************)
Requests == 1..MaxRequests

registered_vars ==
    <<input_schema, output_schema, on_empty_404, input_schema_has_callback>>

\* the locals of the running invocation and the state of its handler object
Frame ==
    [request_body |-> request_body, pc |-> pc, input_ |-> input_,
     resolved_schema |-> resolved_schema, self_body |-> self_body,
     output |-> output, exc |-> exc, response |-> response,
     body_reads |-> body_reads, handler_calls |-> handler_calls,
     trace |-> trace, callback_calls |-> callback_calls]

\* a request before _wrapper is entered: line 180 takes the registered schema
NewFrame(body) ==
    [request_body |-> body, pc |-> "ReceiveInput", input_ |-> Unset,
     resolved_schema |-> input_schema, self_body |-> Unset,
     output |-> Unset, exc |-> NoException, response |-> <<>>,
     body_reads |-> 0, handler_calls |-> 0,
     trace |-> <<>>, callback_calls |-> NoCalls]

\* no invocation runs
NoFrame ==
    [request_body |-> <<>>, pc |-> "Idle", input_ |-> Unset,
     resolved_schema |-> None, self_body |-> Unset,
     output |-> Unset, exc |-> NoException, response |-> <<>>,
     body_reads |-> 0, handler_calls |-> 0,
     trace |-> <<>>, callback_calls |-> NoCalls]

\* the invocation whose locals are f runs
Run(f) ==
    /\ request_body' = f.request_body
    /\ pc' = f.pc
    /\ input_' = f.input_
    /\ resolved_schema' = f.resolved_schema
    /\ self_body' = f.self_body
    /\ output' = f.output
    /\ exc' = f.exc
    /\ response' = f.response
    /\ body_reads' = f.body_reads
    /\ handler_calls' = f.handler_calls
    /\ trace' = f.trace
    /\ callback_calls' = f.callback_calls

\* a yield after every statement
AtYield_anywhere == pc \notin {"Success", "Failed"}

\* The `yield` the running invocation is at: line 199 is reached only with
\* input_schema_has_callback and after evaluate_schema_callbacks returned,
\* line 219 only with is_future(output).
AtYield ==
    \/ pc = "ValidateInput" /\ input_schema_has_callback
    \/ pc = "AwaitHandler" /\ is_future(output)

\* The operations, callback results, bodies and handler results of the
\* requests that run together.
ConcurrentInputSchemas ==
    {PublishedRequired, NameFromCallback, PropertiesFromCallback,
     NameFromHelper}
ConcurrentEnvs ==
    {e \in CallbackEnvs :
        /\ e[1] \in {List(<<Str(s_A), Str(s_B)>>), Raise,
                     MkDict({<<s_name, TypeOnly(s_string)>>})}
        /\ e[2] = MkDict({<<s_name, TypeOnly(s_string)>>})}
ConcurrentBodies ==
    {Encode(<<"{">> \o Quoted(s_name) \o <<":">> \o Quoted(s_A) \o <<"}">>),
     Encode(<<"{">> \o Quoted(s_published) \o <<":">> \o s_true \o <<"}">>)}
ConcurrentResults == {Str(s_A), Num(0)}
Returns(o) ==
    \/ o = Unset
    \/ (IF is_future(o) THEN o.result ELSE o) \in ConcurrentResults

InitConcurrent ==
    /\ input_schema \in ConcurrentInputSchemas
    /\ output_schema = TypeOnly(s_string)
    /\ on_empty_404 = TRUE
    /\ input_schema_has_callback = detect_schemacallback(input_schema)
    /\ env \in ConcurrentEnvs
    /\ request_body = <<>> /\ pc = "Idle"
    /\ input_ = Unset /\ resolved_schema = None /\ self_body = Unset
    /\ output = Unset /\ exc = NoException /\ response = <<>>
    /\ body_reads = 0 /\ handler_calls = 0 /\ trace = <<>>
    /\ callback_calls = NoCalls
    /\ current = 0
    /\ parked \in [Requests ->
                     {[status |-> "arriving", frame |-> NewFrame(body)] :
                        body \in ConcurrentBodies}]
    /\ fmt_schema = None /\ fmt_result = None
    /\ tree = None /\ tree_env = <<>> /\ tree_result = None
    /\ tree_detected = None /\ tree_calls = <<>>
    /\ field_args = None /\ field_result = None
    /\ doc_schema = None /\ doc_result = None
    /\ helper = None /\ helper_context = 0 /\ helper_result = None

concurrent_frame ==
    <<registered_vars, format_vars, resolver_vars, doc_vars, helper_vars>>

\* The handler of the next request is called: _wrapper is entered.
Start(r) ==
    /\ current = 0
    /\ parked[r].status = "arriving"
    /\ \A q \in Requests : q < r => parked[q].status # "arriving"
    /\ Run(parked[r].frame)
    /\ current' = r
    /\ parked' = [parked EXCEPT ![r] = [status |-> "running", frame |-> NoFrame]]
    /\ UNCHANGED <<concurrent_frame, env>>

\* One stage of the running invocation.
Step ==
    /\ current # 0
    /\ Next
    /\ Returns(output')

\* The yielded future is not done: the invocation waits for it.
Suspend ==
    /\ current # 0
    /\ AtYield
    /\ parked' = [parked EXCEPT ![current] =
                    [status |-> "suspended", frame |-> Frame]]
    /\ current' = 0
    /\ Run(NoFrame)
    /\ UNCHANGED <<concurrent_frame, env>>

\* The future a suspended invocation waits for is done.
Resume(r) ==
    /\ current = 0
    /\ parked[r].status = "suspended"
    /\ Run(parked[r].frame)
    /\ current' = r
    /\ parked' = [parked EXCEPT ![r] = [status |-> "running", frame |-> NoFrame]]
    /\ UNCHANGED <<concurrent_frame, env>>

\* A suspended invocation is given up: its future is never done.
Abandon(r) ==
    /\ current = 0
    /\ parked[r].status = "suspended"
    /\ parked' = [parked EXCEPT ![r].status = "abandoned"]
    /\ UNCHANGED <<concurrent_frame, env, request_body, pc, input_,
                   resolved_schema, self_body, output, exc, response,
                   body_reads, handler_calls, trace, callback_calls, current>>

\* The envelope is written: the invocation is over.
Finish ==
    /\ current # 0
    /\ pc \in {"Success", "Failed"}
    /\ parked' = [parked EXCEPT ![current] =
                    [status |-> "finished", frame |-> Frame]]
    /\ current' = 0
    /\ Run(NoFrame)
    /\ UNCHANGED <<concurrent_frame, env>>

\* What the callbacks give changes between the requests.
ChangeEnv ==
    /\ current = 0
    /\ \E r \in Requests : parked[r].status \in {"arriving", "suspended"}
    /\ env' \in ConcurrentEnvs \ {env}
    /\ UNCHANGED <<concurrent_frame, request_body, pc, input_,
                   resolved_schema, self_body, output, exc, response,
                   body_reads, handler_calls, trace, callback_calls,
                   sched_vars>>

NextConcurrent ==
    \/ \E r \in Requests : Start(r)
    \/ Step
    \/ Suspend
    \/ \E r \in Requests : Resume(r)
    \/ \E r \in Requests : Abandon(r)
    \/ Finish
    \/ ChangeEnv

SpecConcurrent == InitConcurrent /\ [][NextConcurrent]_vars

\* the locals of a request, running or not
FrameOf(r) == IF current = r THEN Frame ELSE parked[r].frame
LastStage(f) == IF f.trace = <<>> THEN "" ELSE f.trace[Len(f.trace)]


\* the request waits at line 199: the callbacks were evaluated, nothing
\* was validated yet
WaitsForResolution(f) == LastStage(f) = "ResolveInput" /\ f.exc = NoException
\* the request waits at line 219: rh_method was called and returned
WaitsForHandler(f) == LastStage(f) = "Invoke" /\ f.exc = NoException

\* C22: an invocation leaves the thread to the other requests only at the
\* evaluation of the callbacks, and then the input schema was detected to
\* hold a callback when the operation was registered, or at the call of the
\* handler, and then the handler returned a future; so a request that is
\* not running has not begun, is over, or waits at one of these two points,
\* and a request that waits or was given up there has written no envelope.
C22_SuspendsOnlyAtYields ==
    \A r \in Requests :
        LET f == parked[r].frame
            status == parked[r].status
        IN /\ status = "running" <=> current = r
           /\ status \in {"arriving", "running", "suspended", "abandoned",
                          "finished"}
           /\ status \in {"suspended", "abandoned"} =>
                 /\ \/ /\ WaitsForResolution(f)
                       /\ input_schema_has_callback
                       /\ detect_schemacallback(input_schema)
                    \/ /\ WaitsForHandler(f)
                       /\ f.output.t = "future"
                 /\ f.response = <<>>
           /\ status = "finished" => Len(f.response) = 1

\* a request waits for its callbacks while another one ran from its start
\* to its envelope
C22_Witness ==
    \E r, q \in Requests :
        /\ parked[r].status = "suspended"
        /\ WaitsForResolution(parked[r].frame)
        /\ q > r
        /\ parked[q].status = "finished"

\* a request given up while it waited for the future of its handler
C22_WitnessAbandoned ==
    \E r, q \in Requests :
        /\ parked[r].status = "abandoned"
        /\ WaitsForHandler(parked[r].frame)
        /\ parked[q].status = "finished"
        /\ current = 0


\* the request has evaluated the callbacks of the input schema
HasResolved(f) ==
    /\ \E i \in 1..Len(f.trace) : f.trace[i] = "ResolveInput"
    /\ f.exc # UserException("callback")

\* C23: the registered input schema, callbacks included, is the same after
\* every step of every request; the schema a request validates against is
\* set by the evaluation that request made itself, from the registered
\* schema and what the callbacks gave then, with each callback that is
\* reached called once, and no step of another request changes it.
C23_RegisteredSchemaKept ==
    /\ [][input_schema' = input_schema]_vars
    /\ [][\A r \in Requests :
            \/ /\ FrameOf(r).resolved_schema' = FrameOf(r).resolved_schema
               /\ FrameOf(r).callback_calls' = FrameOf(r).callback_calls
            \/ /\ current = r /\ current' = r
               /\ pc = "ResolveInput"
               /\ input_schema_has_callback
               /\ \/ /\ FrameOf(r).resolved_schema' =
                           evaluate_schema_callbacks(input_schema, env)
                     /\ FrameOf(r).callback_calls' = CallsOf(input_schema)
                  \/ /\ EvaluationRaises(input_schema, env)
                     /\ FrameOf(r).resolved_schema' = input_schema]_vars
    /\ [](\A r \in Requests :
            /\ HasResolved(FrameOf(r)) =>
                  FrameOf(r).callback_calls = CallsOf(input_schema)
            /\ ~HasResolved(FrameOf(r)) /\ FrameOf(r).exc = NoException =>
                  /\ FrameOf(r).callback_calls = NoCalls
                  /\ FrameOf(r).resolved_schema = input_schema)

\* two requests hold different evaluated schemas at once, one of them
\* waiting while the other one validated, and the registered schema still
\* has its callback
C23_Witness ==
    \E r, q \in Requests :
        /\ parked[r].status = "suspended"
        /\ WaitsForResolution(parked[r].frame)
        /\ HasResolved(FrameOf(q))
        /\ \E i \in 1..Len(FrameOf(q).trace) :
              FrameOf(q).trace[i] = "ValidateInput"
        /\ FrameOf(q).resolved_schema # parked[r].frame.resolved_schema
        /\ parked[r].frame.resolved_schema # input_schema
        /\ detect_schemacallback(input_schema)

=============================================================================
